---- MODULE Spec2Model ----
(***************************************************************************)
(* A model of the probabilistic ODE solver "tornado"/"tornadox":           *)
(*   - the step-size controllers of tornadox/step.py,                      *)
(*   - the solve() convenience function of tornado/ivpsolve.py,            *)
(*   - the driving loop of the ODE filter (solution_generator).            *)
(*                                                                         *)
(* Floating-point numbers are modelled by exact rationals <<n, d>> with    *)
(* d > 0, kept in lowest terms.  None is the empty tuple.                  *)
(***************************************************************************)
EXTENDS Integers, Sequences, FiniteSets, TLC

(***************************************************************************)
(* Bounds of the model.                                                    *)
(***************************************************************************)
\* tmax of the initial value problem ranges over 0..MaxTmax (t0 = 0)
MaxTmax == 2
\* solver_order (number of derivatives q) ranges over 1..MaxOrder
MaxOrder == 2
\* vectors handed to scale_error_estimate have 1..MaxDim components
MaxDim == 2

(***************************************************************************)
(* Exact rational arithmetic (the model of Python / jax float arithmetic). *)
(***************************************************************************)
None == <<>>

Abs(i) == IF i < 0 THEN -i ELSE i

\* Euclid's algorithm
gcd[a \in Nat, b \in Nat] == IF b = 0 THEN a ELSE gcd[b, a % b]
GCD(a, b) == gcd[a, b]

\* The arithmetic operators are applications of functions, so that each
\* operand is evaluated once, as Python evaluates the operands of + * / <.
Q == Int \X (Nat \ {0})

Rat(n, d) ==
    [x \in Int, y \in Int |->
        LET g == GCD(Abs(x), Abs(y))
            s == IF y < 0 THEN -1 ELSE 1
        IN  <<(s * x) \div g, (s * y) \div g>>][n, d]

Zero == <<0, 1>>
One == <<1, 1>>

Add(a, b) ==
    [x \in Q, y \in Q |->
        LET g == GCD(x[2], y[2])
        IN  Rat(x[1] * (y[2] \div g) + y[1] * (x[2] \div g),
                (x[2] \div g) * y[2])][a, b]
Neg(a) == [x \in Q |-> <<-x[1], x[2]>>][a]
Sub(a, b) == Add(a, Neg(b))
Mul(a, b) ==
    [x \in Q, y \in Q |->
        LET u == Rat(x[1], y[2])
            v == Rat(y[1], x[2])
        IN  Rat(u[1] * v[1], u[2] * v[2])][a, b]
\* division by a non-zero number
Div(a, b) == Mul(a, [y \in Q |-> Rat(y[2], y[1])][b])
Less(a, b) ==
    [x \in Q, y \in Q |->
        LET g == GCD(x[2], y[2])
        IN  x[1] * (y[2] \div g) < y[1] * (x[2] \div g)][a, b]
Leq(a, b) == ~Less(b, a)
Min(a, b) == [x \in Q, y \in Q |-> IF Less(y, x) THEN y ELSE x][a, b]
RAbs(a) == [x \in Q |-> <<Abs(x[1]), x[2]>>][a]

\* a ** k for a natural number k
RECURSIVE Pow(_, _)
Pow(a, k) == IF k = 0 THEN One ELSE Mul(a, Pow(a, k - 1))

(***************************************************************************)
(* Outcome of a call: a returned value or a raised exception.              *)
(***************************************************************************)
Return(v) == [raised |-> FALSE, value |-> v, exc |-> "", msg |-> ""]
Raise(e, m) == [raised |-> TRUE, value |-> None, exc |-> e, msg |-> m]

(***************************************************************************)
(* tornadox/step.py: step-size selection rules.                            *)
(***************************************************************************)
\* ConstantSteps.__init__
ConstantSteps(dt) ==
    [kind |-> "ConstantSteps", dt |-> dt, firststep |-> None,
     abstol |-> None, reltol |-> None,
     max_changes |-> None, safety_scale |-> None,
     min_step |-> None, max_step |-> None]

\* Mutant of ConstantSteps.suggest: the step it is handed, not the configured one
ConstantSteps_suggest_previous(rule, previous_dt, scaled_error_estimate, local_convergence_rate) ==
    Return(previous_dt)

\* ConstantSteps.suggest: the configured step, whatever it is given
ConstantSteps_suggest(rule, previous_dt, scaled_error_estimate, local_convergence_rate) ==
    Return(rule.dt)

\* ConstantSteps.is_accepted
ConstantSteps_is_accepted(rule, scaled_error_estimate) == TRUE

\* ConstantSteps.scale_error_estimate
ConstantSteps_scale_error_estimate(rule, unscaled_error_estimate, reference_state) ==
    Return(None)

\* ConstantSteps.first_dt
ConstantSteps_first_dt(rule, ivp) == rule.dt

\* AdaptiveSteps.__init__ defaults: max_changes=(0.2, 10.0), safety_scale=0.95
max_changes == <<Rat(1, 5), Rat(10, 1)>>
safety_scale == Rat(19, 20)

\* AdaptiveSteps.__init__ (min_step and max_step are constructor arguments;
\* firststep is the one solve() passes)
AdaptiveSteps(firststep, abstol, reltol, min_step, max_step) ==
    [kind |-> "AdaptiveSteps", dt |-> None, firststep |-> firststep,
     abstol |-> abstol, reltol |-> reltol,
     max_changes |-> max_changes, safety_scale |-> safety_scale,
     min_step |-> min_step, max_step |-> max_step]

\* The scaled errors of the model are the p-th powers of these numbers, so
\* that ratio ** (1.0 / p) is an exact rational.
ErrRoots == {<<1, 20>>, <<1, 2>>, <<19, 20>>, <<1, 1>>, <<2, 1>>, <<10, 1>>}

\* The scaled error estimates an attempt can come back with, for rate p
\* (0: the residual vanished; 1 = One^p: the boundary of acceptance).
ScaledErrors(p) == {Zero} \cup {Pow(r, p) : r \in ErrRoots}

\* x ** (1.0 / p) for x > 0 the reciprocal of a scaled error
Root(x, p) ==
    CHOOSE r \in {<<e[2], e[1]>> : e \in ErrRoots} :
        \E y \in {x} : Pow(r, p) = y

\* Mutant of AdaptiveSteps.suggest: the safety factor is left out
AdaptiveSteps_suggest_nosafety(rule, previous_dt, scaled_error_estimate, local_convergence_rate) ==
    IF local_convergence_rate = 0
    THEN Raise("ValueError", "Please provide a local convergence rate.")
    ELSE
    LET small == rule.max_changes[1]
        large == rule.max_changes[2]
        isinf == scaled_error_estimate = Zero
        ratio == IF isinf THEN Zero ELSE Div(One, scaled_error_estimate)
        change == IF isinf THEN Zero
                  ELSE Root(ratio, local_convergence_rate)
        dt == [c \in Q |->
                 IF (~isinf) /\ Less(c, small) THEN Mul(small, previous_dt)
                  ELSE IF isinf \/ Less(large, c) THEN Mul(large, previous_dt)
                  ELSE Mul(c, previous_dt)][change]
    IN  [d \in Q |->
        IF Less(d, rule.min_step)
        THEN Raise("ValueError", "Step-size smaller than minimum step-size")
        ELSE
        IF Less(rule.max_step, d)
        THEN Raise("ValueError", "Step-size larger than maximum step-size")
        ELSE Return(d)][dt]

\* Mutant of AdaptiveSteps.suggest: no check against min_step
AdaptiveSteps_suggest_nomin(rule, previous_dt, scaled_error_estimate, local_convergence_rate) ==
    IF local_convergence_rate = 0
    THEN Raise("ValueError", "Please provide a local convergence rate.")
    ELSE
    LET small == rule.max_changes[1]
        large == rule.max_changes[2]
        isinf == scaled_error_estimate = Zero
        ratio == IF isinf THEN Zero ELSE Div(One, scaled_error_estimate)
        change == IF isinf THEN Zero
                  ELSE Mul(rule.safety_scale, Root(ratio, local_convergence_rate))
        dt == [c \in Q |->
                 IF (~isinf) /\ Less(c, small) THEN Mul(small, previous_dt)
                  ELSE IF isinf \/ Less(large, c) THEN Mul(large, previous_dt)
                  ELSE Mul(c, previous_dt)][change]
    IN  [d \in Q |->
        IF Less(rule.max_step, d)
        THEN Raise("ValueError", "Step-size larger than maximum step-size")
        ELSE Return(d)][dt]

\* Mutant of AdaptiveSteps.suggest: a change below small keeps the step
AdaptiveSteps_suggest_noshrink(rule, previous_dt, scaled_error_estimate, local_convergence_rate) ==
    IF local_convergence_rate = 0
    THEN Raise("ValueError", "Please provide a local convergence rate.")
    ELSE
    LET small == rule.max_changes[1]
        large == rule.max_changes[2]
        isinf == scaled_error_estimate = Zero
        ratio == IF isinf THEN Zero ELSE Div(One, scaled_error_estimate)
        change == IF isinf THEN Zero
                  ELSE Mul(rule.safety_scale, Root(ratio, local_convergence_rate))
        dt == [c \in Q |->
                 IF (~isinf) /\ Less(c, small) THEN previous_dt
                  ELSE IF isinf \/ Less(large, c) THEN Mul(large, previous_dt)
                  ELSE Mul(c, previous_dt)][change]
    IN  [d \in Q |->
        IF Less(d, rule.min_step)
        THEN Raise("ValueError", "Step-size smaller than minimum step-size")
        ELSE
        IF Less(rule.max_step, d)
        THEN Raise("ValueError", "Step-size larger than maximum step-size")
        ELSE Return(d)][dt]

\* Mutant of AdaptiveSteps.suggest: the change is not clamped
AdaptiveSteps_suggest_noclamp(rule, previous_dt, scaled_error_estimate, local_convergence_rate) ==
    IF local_convergence_rate = 0
    THEN Raise("ValueError", "Please provide a local convergence rate.")
    ELSE
    LET small == rule.max_changes[1]
        large == rule.max_changes[2]
        isinf == scaled_error_estimate = Zero
        ratio == IF isinf THEN Zero ELSE Div(One, scaled_error_estimate)
        change == IF isinf THEN Zero
                  ELSE Mul(rule.safety_scale, Root(ratio, local_convergence_rate))
        dt == [c \in Q |->
                 IF isinf THEN Mul(large, previous_dt)
                  ELSE Mul(c, previous_dt)][change]
    IN  [d \in Q |->
        IF Less(d, rule.min_step)
        THEN Raise("ValueError", "Step-size smaller than minimum step-size")
        ELSE
        IF Less(rule.max_step, d)
        THEN Raise("ValueError", "Step-size larger than maximum step-size")
        ELSE Return(d)][dt]

\* AdaptiveSteps.suggest.  1.0 / 0 is +inf for a jax scalar: change is +inf,
\* neither below small nor NaN, so the step grows by the factor large.
\* (c and d are the values of change and dt, computed once.)
AdaptiveSteps_suggest(rule, previous_dt, scaled_error_estimate, local_convergence_rate) ==
    IF local_convergence_rate = 0   \* local_convergence_rate is None
    THEN Raise("ValueError", "Please provide a local convergence rate.")
    ELSE
    LET small == rule.max_changes[1]
        large == rule.max_changes[2]
        isinf == scaled_error_estimate = Zero
        ratio == IF isinf THEN Zero ELSE Div(One, scaled_error_estimate)
        change == IF isinf THEN Zero
                  ELSE Mul(rule.safety_scale, Root(ratio, local_convergence_rate))
        dt == [c \in Q |->
                 IF (~isinf) /\ Less(c, small) THEN Mul(small, previous_dt)
                  ELSE IF isinf \/ Less(large, c) THEN Mul(large, previous_dt)
                  ELSE Mul(c, previous_dt)][change]
    IN  [d \in Q |->
        IF Less(d, rule.min_step)
        THEN Raise("ValueError", "Step-size smaller than minimum step-size")
        ELSE IF Less(rule.max_step, d)
        THEN Raise("ValueError", "Step-size larger than maximum step-size")
        ELSE Return(d)][dt]

\* Mutant of AdaptiveSteps.is_accepted: an error of exactly 1 is accepted
AdaptiveSteps_is_accepted_leq(rule, scaled_error_estimate) ==
    Leq(scaled_error_estimate, One)

\* AdaptiveSteps.is_accepted
AdaptiveSteps_is_accepted(rule, scaled_error_estimate) ==
    Less(scaled_error_estimate, One)

\* Extended numbers of the error scaling: a finite value, an infinity or NaN
Fin(v) == [kind |-> "fin", v |-> v]
Inf == [kind |-> "inf", v |-> Zero]
NaN == [kind |-> "nan", v |-> Zero]

\* u / t in floating point: x / 0 is an infinity, 0 / 0 is NaN
FloatDiv(u, t) ==
    IF t = Zero THEN (IF u = Zero THEN NaN ELSE Inf) ELSE Fin(Div(u, t))

RECURSIVE SumSquares(_)
SumSquares(x) ==
    IF x = <<>> THEN Zero ELSE Add(Mul(Head(x).v, Head(x).v), SumSquares(Tail(x)))

\* jnp.linalg.norm(x) / jnp.sqrt(dim); a finite result is the square root
\* of the rational v
NormOverSqrt(x, dim) ==
    IF \E i \in 1..Len(x) : x[i].kind = "nan" THEN NaN
    ELSE IF \E i \in 1..Len(x) : x[i].kind = "inf" THEN Inf
    ELSE [kind |-> "sqrt", v |-> Div(SumSquares(x), Rat(dim, 1))]

\* jnp.isscalar(a.size): the size of an array is a Python int, a scalar
isscalar_size(a) == TRUE

\* the shape of a vector
shape(a) == <<Len(a)>>

\* whether two vectors broadcast against each other
Broadcasts(a, b) == Len(a) = Len(b) \/ Len(a) = 1 \/ Len(b) = 1
\* entry i of a vector broadcast to length n
At(a, i) == IF Len(a) = 1 THEN a[1] ELSE a[i]
BroadcastLen(a, b) == IF Len(a) >= Len(b) THEN Len(a) ELSE Len(b)

\* AdaptiveSteps.scale_error_estimate
AdaptiveSteps_scale_error_estimate(rule, unscaled_error_estimate, reference_state) ==
    IF (~isscalar_size(unscaled_error_estimate))
       /\ shape(unscaled_error_estimate) # shape(reference_state)
    THEN Raise("ValueError", "Unscaled error estimate needs same shape as reference state.")
    ELSE
    LET tolerance == [i \in 1..Len(reference_state) |->
                        Add(rule.abstol, Mul(rule.reltol, reference_state[i]))]
    IN  IF ~Broadcasts(unscaled_error_estimate, tolerance)
        THEN Raise("TypeError", "incompatible shapes for broadcasting")
        ELSE
        LET n == BroadcastLen(unscaled_error_estimate, tolerance)
            ratio == [i \in 1..n |->
                        FloatDiv(At(unscaled_error_estimate, i), At(tolerance, i))]
            dim == Len(ratio)
        IN  Return(NormOverSqrt(ratio, dim))

\* StepRule dispatch (abstract methods of StepRule)
suggest(rule, previous_dt, scaled_error_estimate, local_convergence_rate) ==
    IF rule.kind = "ConstantSteps"
    THEN ConstantSteps_suggest(rule, previous_dt, scaled_error_estimate, local_convergence_rate)
    ELSE AdaptiveSteps_suggest(rule, previous_dt, scaled_error_estimate, local_convergence_rate)

first_dt(rule, ivp) ==
    IF rule.kind = "ConstantSteps"
    THEN ConstantSteps_first_dt(rule, ivp)
    ELSE rule.firststep

is_accepted(rule, scaled_error_estimate) ==
    IF rule.kind = "ConstantSteps"
    THEN ConstantSteps_is_accepted(rule, scaled_error_estimate)
    ELSE AdaptiveSteps_is_accepted(rule, scaled_error_estimate)

(***************************************************************************)
(* Arrays: vectors are sequences of rationals, matrices sequences of rows. *)
(***************************************************************************)
\* the vector of length n with every entry v
Full(n, v) == [i \in 1..n |-> v]
\* the n x n matrix c * I
ScaledEye(n, c) == [i \in 1..n |-> [j \in 1..n |-> IF i = j THEN c ELSE Zero]]
\* E0 @ m: the 0th-derivative block of a state of an ODE of dimension d
\* (the state is ordered by derivative)
E0(m, d) == SubSeq(m, 1, d)

(***************************************************************************)
(* The inputs of a solve.                                                  *)
(***************************************************************************)
\* tornado/ivpsolve.py: _SOLVER_REGISTRY
SOLVER_REGISTRY == {"ek1_ref", "ek1_diag"}
SOLVER_REGISTRY_keys == <<"ek1_ref", "ek1_diag">>
Methods == SOLVER_REGISTRY \cup {"nonexisting"}

\* step sizes a caller passes as dt, and values of propose_firststep(ivp)
FirstSteps == {Rat(1, 2), Rat(2, 3), One}
\* tolerances a caller passes
Tolerances == {Rat(1, 100)}
\* (min_step, max_step) of the adaptive step rule
StepBounds == {<<Rat(4, 5), One>>, <<Rat(9, 10), One>>}
\* values of the 0th derivative of the mean, and of the diagonal of cov_sqrtm
MeanVals == {Rat(-1, 1)}
CovVals == {One}

\* an initial value problem y' = f(t, y) on [t0, tmax], dimension 1
IVPs ==
    {[t0 |-> Zero, tmax |-> Rat(k, 1), y0 |-> <<One>>, dimension |-> 1] :
        k \in 0..MaxTmax}

\* the trajectory state (odesolver.ODEFilterState)
ODEFilterState(t, mean, cov_sqrtm, error_estimate, reference_state) ==
    [t |-> t, mean |-> mean, cov_sqrtm |-> cov_sqrtm,
     error_estimate |-> error_estimate, reference_state |-> reference_state]

NoState == ODEFilterState(None, None, None, None, None)

VARIABLES
    pc,            \* where the solve is
    args,          \* the arguments of solve
    stepbounds,    \* (min_step, max_step) the adaptive rule is built with
    steprule,      \* the step rule, None before it is constructed
    solver,        \* the solver object, None before it is constructed
    f_evaluated,   \* whether the vector field has been evaluated
    state,         \* the committed trajectory state
    candidate,     \* the outstanding candidates of attempt_step
    dt,            \* the step the next attempt uses
    scaled_error,  \* the scaled error estimate of the candidate
    previous_dt,   \* the previous_dt of the last call of suggest
    last_error,    \* the scaled error of the last call of suggest
    suggested,     \* the outcome of the last call of suggest
    decision,      \* "accepted" or "rejected": the last decided attempt ("none" before)
    yielded,       \* the states the solver's generator has yielded
    res_times,     \* the times of the yielded states
    res_states,    \* the random variables (state.y) of the yielded states
    res_means,     \* the means of the yielded states
    res_cov_chols, \* the covariance factors of the yielded states
    result,        \* what solve returned, None before
    exc,           \* the exception solve raised, None before
    call           \* a call of a function of the library on its own

vars == <<pc, args, stepbounds, steprule, solver, f_evaluated, state, candidate,
          dt, scaled_error, previous_dt, last_error, suggested, decision,
          yielded, res_times, res_states, res_means, res_cov_chols, result, exc, call>>

solveVars == <<pc, args, stepbounds, steprule, solver, f_evaluated, state,
               candidate, dt, scaled_error, previous_dt, last_error, suggested,
               decision, yielded, res_times, res_states, res_means, res_cov_chols, result, exc>>

NoCall == [op |-> "none"]

Init ==
    /\ pc = "start"
    /\ args \in [ivp : IVPs,
                 method : Methods,
                 solver_order : 1..MaxOrder,
                 adaptive : BOOLEAN,
                 dt : {None} \cup FirstSteps,
                 abstol : {None} \cup Tolerances,
                 reltol : {None} \cup Tolerances,
                 benchmark_mode : BOOLEAN]
    /\ stepbounds \in StepBounds
    /\ steprule = None
    /\ solver = None
    /\ f_evaluated = FALSE
    /\ state = NoState
    /\ candidate = <<>>
    /\ dt = None
    /\ scaled_error = None
    /\ previous_dt = None
    /\ last_error = None
    /\ suggested = None
    /\ decision = "none"
    /\ yielded = <<>>
    /\ res_times = <<>>
    /\ res_states = <<>>
    /\ res_means = <<>>
    /\ res_cov_chols = <<>>
    /\ result = None
    /\ exc = None
    /\ call = NoCall

(***************************************************************************)
(* tornado/ivpsolve.py: solve().                                           *)
(***************************************************************************)
Exception(type, msg) == [type |-> type, msg |-> msg]

\* Mutant of "# Create steprule": the tolerances are checked after the first
\* step has been chosen
CreateSteprule_late ==
    /\ pc = "start"
    /\ IF args.adaptive
       THEN \E firststep \in (IF args.dt # None THEN {args.dt} ELSE FirstSteps) :
               /\ f_evaluated' = (args.dt = None)
               /\ IF args.abstol = None \/ args.reltol = None
                  THEN /\ exc' = Exception("ValueError",
                           <<"Please provide absolute and relative tolerance for adaptive steps.">>)
                       /\ pc' = "raised"
                       /\ steprule' = steprule
                  ELSE /\ steprule' = AdaptiveSteps(firststep, args.abstol, args.reltol,
                                                    stepbounds[1], stepbounds[2])
                       /\ pc' = "steprule"
                       /\ exc' = exc
       ELSE /\ steprule' = ConstantSteps(args.dt)
            /\ pc' = "steprule"
            /\ UNCHANGED <<exc, f_evaluated>>
    /\ UNCHANGED <<args, stepbounds, solver, state, candidate, dt, scaled_error,
                   previous_dt, last_error, suggested, decision, yielded, res_times, res_states,
                   res_means, res_cov_chols, result, call>>

\* "# Create steprule": lines 100-109
CreateSteprule ==
    /\ pc = "start"
    /\ IF args.adaptive
       THEN IF args.abstol = None \/ args.reltol = None
            THEN /\ exc' = Exception("ValueError",
                     <<"Please provide absolute and relative tolerance for adaptive steps.">>)
                 /\ pc' = "raised"
                 /\ UNCHANGED <<steprule, f_evaluated>>
            ELSE \* dt if dt is not None else step.propose_firststep(ivp),
                 \* which evaluates the vector field at (t0, y0)
                 \E firststep \in (IF args.dt # None THEN {args.dt} ELSE FirstSteps) :
                    /\ f_evaluated' = (args.dt = None)
                    /\ steprule' = AdaptiveSteps(firststep, args.abstol, args.reltol,
                                                 stepbounds[1], stepbounds[2])
                    /\ pc' = "steprule"
                    /\ exc' = exc
       ELSE /\ steprule' = ConstantSteps(args.dt)
            /\ pc' = "steprule"
            /\ UNCHANGED <<exc, f_evaluated>>
    /\ UNCHANGED <<args, stepbounds, solver, state, candidate, dt, scaled_error,
                   previous_dt, last_error, suggested, decision, yielded, res_times, res_states,
                   res_means, res_cov_chols, result, call>>

\* Mutant of "# Set up solve-algorithm": an unknown method falls back to the
\* default solver
CreateSolver_default ==
    /\ pc = "steprule"
    /\ solver' = [method |-> IF args.method \in SOLVER_REGISTRY
                             THEN args.method ELSE "ek1_ref",
                  num_derivatives |-> args.solver_order,
                  ode_dimension |-> args.ivp.dimension,
                  steprule |-> steprule,
                  initialized |-> FALSE]
    /\ pc' = "solver"
    /\ UNCHANGED <<args, stepbounds, steprule, f_evaluated, state, candidate, dt,
                   scaled_error, previous_dt, last_error, suggested, decision,
                   yielded, res_times, res_states, res_means, res_cov_chols, result, exc, call>>

\* "# Set up solve-algorithm": lines 111-122
CreateSolver ==
    /\ pc = "steprule"
    /\ IF args.method \in SOLVER_REGISTRY
       THEN /\ solver' = [method |-> args.method,
                          num_derivatives |-> args.solver_order,
                          ode_dimension |-> args.ivp.dimension,
                          steprule |-> steprule,
                          initialized |-> FALSE]
            /\ pc' = "solver"
            /\ exc' = exc
       ELSE /\ exc' = Exception("KeyError",
                        <<"Specified method ", args.method, " is unknown. ",
                          "Known methods are ">> \o SOLVER_REGISTRY_keys)
            /\ pc' = "raised"
            /\ solver' = solver
    /\ UNCHANGED <<args, stepbounds, steprule, f_evaluated, state, candidate, dt,
                   scaled_error, previous_dt, last_error, suggested, decision,
                   yielded, res_times, res_states, res_means, res_cov_chols, result, call>>

\* rv.MultivariateNormal(mean, cov_sqrtm) and its cov property
MultivariateNormal(mean, cov_sqrtm) == [mean |-> mean, cov_sqrtm |-> cov_sqrtm]
\* state.y
state_y(s) == MultivariateNormal(s.mean, s.cov_sqrtm)

\* a variant of the loop body that puts the newest time first
Consume_newestfirst(s) ==
    /\ yielded' = Append(yielded, s)
    /\ IF args.benchmark_mode
       THEN UNCHANGED <<res_times, res_states, res_means, res_cov_chols>>
       ELSE /\ res_times' = <<s.t>> \o res_times
            /\ res_states' = Append(res_states, state_y(s))
            /\ res_means' = Append(res_means, state_y(s).mean)
            /\ res_cov_chols' = Append(res_cov_chols, state_y(s).cov_sqrtm)

\* the body of solve's loops over the generator: lines 127-128 and 136-140
Consume(s) ==
    /\ yielded' = Append(yielded, s)
    /\ IF args.benchmark_mode
       THEN UNCHANGED <<res_times, res_states, res_means, res_cov_chols>>
       ELSE /\ res_times' = Append(res_times, s.t)
            /\ res_states' = Append(res_states, state_y(s))
            /\ res_means' = Append(res_means, state_y(s).mean)
            /\ res_cov_chols' = Append(res_cov_chols, state_y(s).cov_sqrtm)

(***************************************************************************)
(* The ODE filter: initialize, attempt_step and the driving loop.          *)
(***************************************************************************)
\* size of the state of an ODE of dimension d solved at order q
StateDim(d, q) == d * (q + 1)

\* initialize(ivp): the first trajectory state (ek0.py, lines 9-27)
initialize(ivp, q) ==
    ODEFilterState(ivp.t0,
                   ivp.y0 \o Full(StateDim(ivp.dimension, q) - ivp.dimension, Zero),
                   ScaledEye(StateDim(ivp.dimension, q), Zero),
                   None,
                   ivp.y0)

\* Mutant of attempt_step: the candidate's time is dt, not t + dt
attempt_step_time(s, h, ivp, q, adaptive, m, c, e) ==
    LET n == StateDim(ivp.dimension, q)
        m_new == Full(ivp.dimension, m) \o Full(n - ivp.dimension, Zero)
    IN  ODEFilterState(h,
                       m_new,
                       ScaledEye(n, c),
                       IF adaptive THEN Full(ivp.dimension, e) ELSE None,
                       E0(m_new, ivp.dimension))

\* attempt_step(state, dt): the candidate at t + dt (ek0.py, lines 29-58), for a
\* posterior whose 0th derivative is m and whose covariance factor is c * I;
\* both depend on the vector field, which the model leaves open.
attempt_step(s, h, ivp, q, adaptive, m, c, e) ==
    LET n == StateDim(ivp.dimension, q)
        m_new == Full(ivp.dimension, m) \o Full(n - ivp.dimension, Zero)
    IN  ODEFilterState(Add(s.t, h),
                       m_new,
                       ScaledEye(n, c),
                       IF adaptive THEN Full(ivp.dimension, e) ELSE None,
                       E0(m_new, ivp.dimension))

\* the generator starts: the initial state is yielded, dt = first_dt(ivp)
Initialize ==
    /\ pc = "solver"
    /\ state' = initialize(args.ivp, solver.num_derivatives)
    /\ solver' = [solver EXCEPT !.initialized = TRUE]
    /\ Consume(state')
    /\ dt' = first_dt(steprule, args.ivp)
    /\ pc' = "running"
    /\ UNCHANGED <<args, stepbounds, steprule, f_evaluated, candidate,
                   scaled_error, previous_dt, last_error, suggested, decision,
                   result, exc, call>>

\* one attempt: the step is clipped to tmax - t, attempt_step returns a
\* candidate and the step rule scales its error estimate
AttemptStep ==
    /\ pc = "running"
    /\ Less(state.t, args.ivp.tmax)
    /\ IF dt = None
       THEN \* ConstantSteps(None): the step is no number
            /\ exc' = Exception("TypeError", <<"unsupported operand type(s)">>)
            /\ pc' = "raised"
            /\ UNCHANGED <<dt, candidate, scaled_error, f_evaluated>>
       ELSE \E m \in MeanVals, c \in CovVals,
               e \in (IF args.adaptive
                      THEN ScaledErrors(solver.num_derivatives + 1)
                      ELSE {None}) :
              /\ dt' = Min(dt, Sub(args.ivp.tmax, state.t))
              /\ candidate' = Append(candidate,
                    attempt_step(state, dt', args.ivp, solver.num_derivatives,
                                 args.adaptive, m, c, e))
              /\ scaled_error' = e
              /\ f_evaluated' = TRUE
              /\ pc' = "attempted"
              /\ exc' = exc
    /\ UNCHANGED <<args, stepbounds, steprule, solver, state, previous_dt,
                   last_error, suggested, decision, yielded, res_times, res_states, res_means,
                   res_cov_chols, result, call>>

\* the decision on the candidate: commit it or discard it, and ask the step
\* rule for the next step
Decide ==
    /\ pc = "attempted"
    /\ \E proposed \in {Head(candidate)},
          ok \in {is_accepted(steprule, scaled_error)},
          sug \in {suggest(steprule, dt, scaled_error, solver.num_derivatives + 1)} :
           /\ decision' = IF ok THEN "accepted" ELSE "rejected"
           /\ state' = IF ok THEN proposed ELSE state
           /\ candidate' = Tail(candidate)
           /\ previous_dt' = dt
           /\ last_error' = scaled_error
           /\ suggested' = sug
           /\ IF sug.raised
              THEN /\ exc' = Exception(sug.exc, <<sug.msg>>)
                   /\ pc' = "raised"
                   /\ UNCHANGED <<dt, yielded, res_times, res_states, res_means, res_cov_chols>>
              ELSE /\ dt' = sug.value
                   /\ pc' = "running"
                   /\ exc' = exc
                   /\ IF ok THEN Consume(proposed)
                      ELSE UNCHANGED <<yielded, res_times, res_states, res_means, res_cov_chols>>
    /\ UNCHANGED <<args, stepbounds, steprule, solver, f_evaluated,
                   scaled_error, result, call>>

\* ivpsolve.ODESolution and its properties mean, cov_sqrtm and cov
ODESolution(t, ys, means, covs_sqrtm) ==
    [t |-> t, y |-> ys, means |-> means, covs_sqrtm |-> covs_sqrtm]
ODESolution_mean(sol) ==
    IF sol.means = None THEN [i \in 1..Len(sol.y) |-> sol.y[i].mean] ELSE sol.means
ODESolution_cov_sqrtm(sol) ==
    IF sol.covs_sqrtm = None THEN [i \in 1..Len(sol.y) |-> sol.y[i].cov_sqrtm]
    ELSE sol.covs_sqrtm
ODESolution_cov(sol) ==
    [i \in 1..Len(ODESolution_cov_sqrtm(sol)) |->
        LET L == ODESolution_cov_sqrtm(sol)[i]
        IN  [r \in 1..Len(L) |-> [c \in 1..Len(L) |->
                LET dot[k \in 0..Len(L)] ==
                        IF k = 0 THEN Zero
                        ELSE Add(dot[k - 1], Mul(L[r][k], L[c][k]))
                IN  dot[Len(L)]]]]

\* t has reached tmax: the generator ends and solve returns (lines 129, 142-147)
Finish ==
    /\ pc = "running"
    /\ ~Less(state.t, args.ivp.tmax)
    /\ result' = IF args.benchmark_mode
                 THEN [state |-> state, solver |-> solver]
                 ELSE [solution |-> ODESolution(res_times, res_states, res_means,
                                                res_cov_chols),
                       solver |-> solver]
    /\ pc' = "returned"
    /\ UNCHANGED <<args, stepbounds, steprule, solver, f_evaluated, state,
                   candidate, dt, scaled_error, previous_dt, last_error,
                   suggested, decision, yielded, res_times, res_states, res_means, res_cov_chols,
                   exc, call>>

Next ==
    \/ CreateSteprule
    \/ CreateSolver
    \/ Initialize
    \/ AttemptStep
    \/ Decide
    \/ Finish

Spec == Init /\ [][Next]_vars

(***************************************************************************)
(* Calls of the step rule's functions on their own, on inputs drawn from   *)
(* bounded sets.                                                           *)
(***************************************************************************)
\* previous_dt values handed to suggest
PreviousSteps == {Rat(1, 10), Rat(1, 2), One, Rat(2, 1)}
\* (min_step, max_step) of the rules suggest is called on
CallBounds == {<<Rat(1, 100), Rat(100, 1)>>, <<Rat(4, 5), One>>}
\* tolerances of the rules scale_error_estimate is called on
CallAbstols == {One}
CallReltols == {Rat(1, 2), One}
\* entries of the reference states and of the unscaled error estimates
ReferenceVals == {Rat(-2, 1), Rat(-1, 1), Zero, One}
ErrorVals == {Zero, One}

\* the vectors of length 1..n with entries in S
Vectors(S, n) == UNION {[1..k -> S] : k \in 1..n}

InitCalls ==
    /\ pc = "idle"
    /\ args = None
    /\ stepbounds = None
    /\ steprule = None
    /\ solver = None
    /\ f_evaluated = FALSE
    /\ state = NoState
    /\ candidate = <<>>
    /\ dt = None
    /\ scaled_error = None
    /\ previous_dt = None
    /\ last_error = None
    /\ suggested = None
    /\ decision = "none"
    /\ yielded = <<>>
    /\ res_times = <<>>
    /\ res_states = <<>>
    /\ res_means = <<>>
    /\ res_cov_chols = <<>>
    /\ result = None
    /\ exc = None
    /\ call = NoCall

CallSuggest ==
    /\ call = NoCall
    /\ \E b \in CallBounds, h \in PreviousSteps, p \in 1..(MaxOrder + 1) :
         \E e \in ScaledErrors(p) :
            LET rule == AdaptiveSteps(h, One, One, b[1], b[2])
            IN  call' = [op |-> "suggest", rule |-> rule, previous_dt |-> h,
                         scaled_error |-> e, rate |-> p,
                         out |-> AdaptiveSteps_suggest(rule, h, e, p)]
    /\ UNCHANGED solveVars

CallConstantSuggest ==
    /\ call = NoCall
    /\ \E h \in PreviousSteps, g \in PreviousSteps, p \in 1..(MaxOrder + 1) :
         \E e \in ScaledErrors(p) \cup {None} :
            LET rule == ConstantSteps(g)
            IN  call' = [op |-> "constant_suggest", rule |-> rule, previous_dt |-> h,
                         scaled_error |-> e, rate |-> p,
                         out |-> ConstantSteps_suggest(rule, h, e, p)]
    /\ UNCHANGED solveVars

CallScaleErrorEstimate ==
    /\ call = NoCall
    /\ \E a \in CallAbstols, r \in CallReltols,
          u \in Vectors(ErrorVals, MaxDim), y \in Vectors(ReferenceVals, MaxDim) :
            LET rule == AdaptiveSteps(One, a, r, Rat(1, 100), Rat(100, 1))
            IN  call' = [op |-> "scale_error_estimate", rule |-> rule,
                         unscaled |-> u, reference |-> y,
                         out |-> AdaptiveSteps_scale_error_estimate(rule, u, y)]
    /\ UNCHANGED solveVars

NextCalls ==
    \/ CallSuggest
    \/ CallConstantSuggest
    \/ CallScaleErrorEstimate

SpecCalls == InitCalls /\ [][NextCalls]_vars

\* the solve takes its next step as long as it has one (a sequential program)
FairSpec == Spec /\ WF_vars(Next)

(***************************************************************************)
(* Properties.                                                             *)
(***************************************************************************)
MaxR(a, b) == IF Less(a, b) THEN b ELSE a
\* the largest integer not above a rational a >= 0
Floor(a) == a[1] \div a[2]
StepSizeMessages == {<<"Step-size smaller than minimum step-size">>,
                     <<"Step-size larger than maximum step-size">>}
ToleranceMessage ==
    <<"Please provide absolute and relative tolerance for adaptive steps.">>

\* C1: a candidate is committed if and only if its scaled error is accepted
\* (below 1 under AdaptiveSteps, always under ConstantSteps); a candidate that
\* is not accepted is discarded and the committed state is what it was before
\* the attempt; there is never more than one outstanding candidate, and the
\* committed state changes in no other step of the loop.
C1_CommitIffAccepted ==
    [][/\ Len(candidate') <= 1
       /\ (pc = "attempted" =>
             LET ok == IF steprule.kind = "AdaptiveSteps"
                       THEN Less(scaled_error, One) ELSE TRUE
             IN  /\ Len(candidate) = 1
                 /\ candidate' = <<>>
                 /\ ((state' = Head(candidate)) <=> ok)
                 /\ (~ok => state' = state /\ decision' = "rejected")
                 /\ (ok => decision' = "accepted"))
       /\ (pc = "running" => state' = state)]_vars

C1_Witness ==
    /\ pc = "running"
    /\ decision = "rejected"
    /\ last_error = One
    /\ Less(Zero, state.t)
    /\ candidate = <<>>

\* C2: under AdaptiveSteps, when an attempt with step dt comes back with a
\* scaled error >= 1 and suggest returns, the attempt is rejected, the
\* suggested step is strictly smaller than dt, and so is the step of the retry.
C2_RejectedShrinks ==
    [][(pc = "attempted" /\ steprule.kind = "AdaptiveSteps"
          /\ Leq(One, scaled_error) /\ ~suggested'.raised)
        => /\ decision' = "rejected"
           /\ previous_dt' = dt
           /\ Less(suggested'.value, dt)
           /\ Less(dt', dt)]_vars

C2_Witness ==
    /\ pc = "running"
    /\ decision = "rejected"
    /\ suggested.value = Mul(Rat(19, 20), previous_dt)
    /\ dt = suggested.value

\* C3: the committed times start at t0, increase strictly and end at tmax when
\* the solve returns; no attempt goes beyond tmax.
C3_Mesh ==
    /\ (pc = "attempted" =>
          /\ Leq(Add(state.t, dt), args.ivp.tmax)
          /\ Head(candidate).t = Add(state.t, dt)
          /\ Less(state.t, Head(candidate).t))
    /\ (pc \in {"running", "attempted", "returned"} =>
          /\ Leq(args.ivp.t0, state.t)
          /\ Leq(state.t, args.ivp.tmax)
          /\ (~args.benchmark_mode =>
                /\ res_times[1] = args.ivp.t0
                /\ res_times[Len(res_times)] = state.t
                /\ \A i \in 1..(Len(res_times) - 1) :
                      Less(res_times[i], res_times[i + 1])))
    /\ (pc = "returned" => state.t = args.ivp.tmax)

C3_Witness ==
    /\ pc = "returned"
    /\ args.adaptive
    /\ ~args.benchmark_mode
    /\ Len(res_times) >= 3
    /\ res_times[Len(res_times)] = Rat(2, 1)

\* C4: a step that suggest returns lies in [min_step, max_step]; otherwise
\* suggest raises, the solve ends with that error in the same step, and
\* nothing happens after it (no retry).
C4_BoundsFatal ==
    [][/\ pc # "raised"
       /\ (pc = "attempted" /\ steprule.kind = "AdaptiveSteps" =>
             IF suggested'.raised
             THEN /\ pc' = "raised"
                  /\ exc'.type = "ValueError"
                  /\ exc'.msg \in StepSizeMessages
                  /\ candidate' = <<>>
                  /\ UNCHANGED <<dt, yielded, res_times, res_states, res_means, res_cov_chols>>
             ELSE /\ Leq(steprule.min_step, suggested'.value)
                  /\ Leq(suggested'.value, steprule.max_step)
                  /\ pc' = "running")]_vars

C4_Witness ==
    /\ pc = "raised"
    /\ decision = "rejected"
    /\ exc.msg = <<"Step-size smaller than minimum step-size">>
    /\ suggested.raised

C6_UnknownMethod ==
    (args.method \notin {"ek1_ref", "ek1_diag"}) =>
        /\ pc \in {"start", "steprule", "raised"}
        /\ solver = None
        /\ state = NoState
        /\ candidate = <<>>
        /\ decision = "none"
        /\ result = None
        /\ (pc = "raised" /\ steprule # None =>
              /\ exc.type = "KeyError"
              /\ \E i \in 1..Len(exc.msg) : exc.msg[i] = args.method)

C6_Witness ==
    /\ pc = "raised"
    /\ exc.type = "KeyError"
    /\ args.adaptive
    /\ f_evaluated
    /\ steprule.kind = "AdaptiveSteps"

\* C7: with adaptive=True and abstol or reltol None the solve raises
\* ValueError with no step rule, no solver and no evaluation of the vector
\* field before it; with adaptive=False missing tolerances raise nothing.
C7_MissingTolerances ==
    (args.abstol = None \/ args.reltol = None) =>
        /\ args.adaptive =>
              /\ pc \in {"start", "raised"}
              /\ steprule = None
              /\ solver = None
              /\ ~f_evaluated
              /\ state = NoState
              /\ (pc = "raised" =>
                    exc.type = "ValueError" /\ exc.msg = ToleranceMessage)
        /\ (~args.adaptive) =>
              /\ (pc = "raised" => exc.msg # ToleranceMessage)
              /\ (pc # "start" => steprule = ConstantSteps(args.dt))

C7_Witness ==
    /\ pc = "raised"
    /\ args.adaptive
    /\ args.abstol = None
    /\ args.reltol # None
    /\ args.dt = None
    /\ exc.type = "ValueError"

\* C8 as stated: with adaptive=False the mesh is t0, t0 + dt, t0 + 2*dt, ...
\* with exactly int((tmax - t0) / dt) + 1 points.
C8_UniformMesh ==
    (pc = "returned" /\ ~args.adaptive /\ ~args.benchmark_mode /\ args.dt # None) =>
        /\ Len(res_times) =
              Floor(Div(Sub(args.ivp.tmax, args.ivp.t0), args.dt)) + 1
        /\ \A i \in 1..Len(res_times) :
              res_times[i] = Add(args.ivp.t0, Mul(Rat(i - 1, 1), args.dt))

\* C8, amended: with adaptive=False every call of suggest returns dt and no
\* attempt is rejected; the mesh is t0, t0 + dt, ... followed by tmax, the
\* last step being clipped to tmax - t: int((tmax - t0) / dt) + 1 points when
\* dt divides tmax - t0 and one more when it does not.
C8_ClippedMesh ==
    (pc # "start" /\ ~args.adaptive) =>
        /\ decision # "rejected"
        /\ (decision = "accepted" =>
              ~suggested.raised /\ suggested.value = args.dt)
        /\ (pc = "returned" /\ ~args.benchmark_mode /\ args.dt # None =>
              LET span == Sub(args.ivp.tmax, args.ivp.t0)
                  k == Floor(Div(span, args.dt))
                  n == Len(res_times)
              IN  /\ \A i \in 1..(n - 1) :
                        res_times[i] = Add(args.ivp.t0, Mul(Rat(i - 1, 1), args.dt))
                  /\ res_times[n] = args.ivp.tmax
                  /\ n = IF Mul(Rat(k, 1), args.dt) = span THEN k + 1 ELSE k + 2)

C8_Witness ==
    /\ pc = "returned"
    /\ ~args.adaptive
    /\ ~args.benchmark_mode
    /\ res_times = <<Zero, Rat(2, 3), One>>

\* C9: a step that AdaptiveSteps.suggest returns is previous_dt times
\* safety_scale * (1 / scaled_error)^(1 / p) clamped to [low, high], so it
\* lies between low * previous_dt and high * previous_dt.
C9_SuggestClamped ==
    (call.op = "suggest" /\ ~call.out.raised) =>
        LET low == Rat(1, 5)
            high == Rat(10, 1)
            factor == IF call.scaled_error = Zero THEN high
                      ELSE MaxR(low,
                                Min(Mul(Rat(19, 20),
                                        Root(Div(One, call.scaled_error), call.rate)),
                                    high))
        IN  /\ call.out.value = Mul(factor, call.previous_dt)
            /\ Leq(Mul(low, call.previous_dt), call.out.value)
            /\ Leq(call.out.value, Mul(high, call.previous_dt))

C9_Witness ==
    /\ call.op = "suggest"
    /\ ~call.out.raised
    /\ call.scaled_error = Pow(Rat(10, 1), call.rate)
    /\ call.out.value = Mul(Rat(1, 5), call.previous_dt)

\* C10: scale_error_estimate returns the root-mean-square of
\* unscaled / (abstol + reltol * |reference|) over the components.
C10_AbsoluteTolerance ==
    (call.op = "scale_error_estimate" /\ ~call.out.raised
        /\ Len(call.unscaled) = Len(call.reference)) =>
        LET n == Len(call.reference)
            tolerance == [i \in 1..n |->
                            Add(call.rule.abstol,
                                Mul(call.rule.reltol, RAbs(call.reference[i])))]
            ratio == [i \in 1..n |-> Fin(Div(call.unscaled[i], tolerance[i]))]
        IN  call.out.value =
                [kind |-> "sqrt", v |-> Div(SumSquares(ratio), Rat(n, 1))]

\* C11: scale_error_estimate raises the shape-mismatch ValueError whenever
\* the shape of the unscaled error estimate differs from the shape of the
\* reference state.
C11_ShapeMismatchRaises ==
    (call.op = "scale_error_estimate"
        /\ shape(call.unscaled) # shape(call.reference)) =>
        /\ call.out.raised
        /\ call.out.exc = "ValueError"
        /\ call.out.msg = "Unscaled error estimate needs same shape as reference state."

(***************************************************************************)
(* Dense linear algebra over the rationals.  A matrix is a sequence of     *)
(* rows, a vector a sequence of numbers.                                   *)
(***************************************************************************)
\* F at the value of v, and F at the values of u and v: the arguments are
\* evaluated once
Let(v, F(_)) == CHOOSE r \in {F(x) : x \in {v}} : TRUE
Let2(u, v, F(_, _)) == CHOOSE r \in {F(x, z) : x \in {u}, z \in {v}} : TRUE

Rows(M) == Len(M)
Cols(M) == Len(M[1])
\* M.shape
MatShape(M) == Let(M, LAMBDA X : <<Rows(X), Cols(X)>>)
\* M.T
Transpose(M) ==
    Let(M, LAMBDA X : [j \in 1..Cols(X) |-> [i \in 1..Rows(X) |-> X[i][j]]])
Column(M, j) == [i \in 1..Rows(M) |-> M[i][j]]
\* jnp.zeros((m, n)) and jnp.eye(n)
Zeros(m, n) == [i \in 1..m |-> [j \in 1..n |-> Zero]]
Eye(n) == ScaledEye(n, One)
\* u . v
Dot(u, v) ==
    Let2(u, v, LAMBDA a, b :
        LET s[k \in 0..Len(a)] ==
                IF k = 0 THEN Zero ELSE Add(s[k - 1], Mul(a[k], b[k]))
        IN  s[Len(a)])
\* A @ B, A @ v, A - B, c * A, u - v, c * v
MatMul(A, B) ==
    Let2(A, Transpose(B), LAMBDA X, Yt :
        [i \in 1..Rows(X) |-> [j \in 1..Rows(Yt) |-> Dot(X[i], Yt[j])]])
MatVec(A, v) == Let2(A, v, LAMBDA X, u : [i \in 1..Rows(X) |-> Dot(X[i], u)])
MatSub(A, B) ==
    Let2(A, B, LAMBDA X, Y :
        [i \in 1..Rows(X) |-> [j \in 1..Cols(X) |-> Sub(X[i][j], Y[i][j])]])
MatAdd(A, B) ==
    Let2(A, B, LAMBDA X, Y :
        [i \in 1..Rows(X) |-> [j \in 1..Cols(X) |-> Add(X[i][j], Y[i][j])]])
MatScale(c, A) ==
    Let2(c, A, LAMBDA a, X :
        [i \in 1..Rows(X) |-> [j \in 1..Cols(X) |-> Mul(a, X[i][j])]])
VecSub(u, v) == Let2(u, v, LAMBDA a, b : [i \in 1..Len(a) |-> Sub(a[i], b[i])])
VecScale(c, v) == Let2(c, v, LAMBDA a, b : [i \in 1..Len(b) |-> Mul(a, b[i])])
\* jnp.block([[A, B]]) and jnp.block([[A], [B]])
HStack(A, B) == Let2(A, B, LAMBDA X, Y : [i \in 1..Rows(X) |-> X[i] \o Y[i]])
VStack(A, B) == A \o B
\* M[r1:r2, c1:c2] with 1-based inclusive bounds
Slice(M, r1, r2, c1, c2) ==
    Let(M, LAMBDA X :
        [i \in 1..(r2 - r1 + 1) |-> [j \in 1..(c2 - c1 + 1) |->
            X[r1 + i - 1][c1 + j - 1]]])
\* jnp.diag(M)
Diag(M) == Let(M, LAMBDA X : [i \in 1..Rows(X) |-> X[i][i]])
\* jnp.allclose(M, jnp.tril(M))
IsLowerTriangular(M) ==
    \E X \in {M} : \A i \in 1..Rows(X) : \A j \in 1..Cols(X) : j > i => X[i][j] = Zero
\* jnp.all(jnp.diag(M) >= 0)
HasNonNegativeDiagonal(M) == \E X \in {M} : \A i \in 1..Rows(X) : Leq(Zero, X[i][i])

\* the integer square root and the square root of a rational that is a square
isqrt[n \in Nat] == CHOOSE r \in 0..n : r * r <= n /\ (r + 1) * (r + 1) > n
IsSquare(x) ==
    \E v \in {x} :
        /\ v[1] >= 0
        /\ isqrt[v[1]] * isqrt[v[1]] = v[1]
        /\ isqrt[v[2]] * isqrt[v[2]] = v[2]
Sqrt(x) == [v \in Q |-> <<isqrt[v[1]], isqrt[v[2]]>>][x]

(***************************************************************************)
(* The QR factorization (jnp.linalg.qr(M, mode="r")) of a matrix with at   *)
(* least as many rows as columns, by orthonormalizing its columns.  The    *)
(* upper-triangular factor is unique only up to the sign of each row:      *)
(* signs[i] is the sign the factorization happens to give row i.           *)
(***************************************************************************)
\* what is left of column number Len(qs) + 1 after the directions qs
Residual(cols, qs) ==
    Let2(cols[Len(qs) + 1], qs, LAMBDA m, dirs :
        LET proj[k \in 0..Len(dirs)] ==
                IF k = 0 THEN m
                ELSE VecSub(proj[k - 1], VecScale(Dot(dirs[k], m), dirs[k]))
        IN  proj[Len(dirs)])
\* v / |v|, and v itself when v = 0
Normalize(v) ==
    Let2(v, Sqrt(Dot(v, v)), LAMBDA u, nrm :
        IF nrm = Zero THEN u ELSE VecScale(Div(One, nrm), u))
RECURSIVE Orthonormalize(_, _)
Orthonormalize(cols, qs) ==
    IF Len(qs) = Len(cols) THEN qs
    ELSE Let2(cols, Append(qs, Normalize(Residual(cols, qs))),
              LAMBDA c, dirs : Orthonormalize(c, dirs))
\* whether every norm the factorization takes is a rational number
RECURSIVE RationalNorms(_, _)
RationalNorms(cols, qs) ==
    IF Len(qs) = Len(cols) THEN TRUE
    ELSE \E v \in {Residual(cols, qs)} :
            /\ IsSquare(Dot(v, v))
            /\ \E dirs \in {Append(qs, Normalize(v))} : RationalNorms(cols, dirs)
HasRationalQR(M) == \E cols \in {Transpose(M)} : RationalNorms(cols, <<>>)
\* the signs tried: all rows positive, all negative, alternating
SignPatterns == 1..3
SignPattern(k, n) ==
    [i \in 1..n |-> IF k = 1 THEN 1 ELSE IF k = 2 THEN -1
                    ELSE IF i % 2 = 1 THEN -1 ELSE 1]
Signs(n) == {SignPattern(k, n) : k \in SignPatterns}
\* the factor R of M = Q R
QR_R(M, signs) ==
    Let(Transpose(M), LAMBDA cols :
        Let(Orthonormalize(cols, <<>>), LAMBDA qs :
            [i \in 1..Len(cols) |-> [j \in 1..Len(cols) |->
                IF i > j THEN Zero
                ELSE Mul(Rat(signs[i], 1), Dot(qs[i], cols[j]))]]))

\* jax.scipy.linalg.solve_triangular(R, B, lower=False): X with R X = B
SolveUpperTriangular(R, B) ==
    Let2(R, B, LAMBDA U, V :
        LET n == Rows(U)
            x[i \in 1..n, j \in 1..Cols(V)] ==
                LET s[k \in i..n] ==
                        IF k = i THEN Zero
                        ELSE Add(s[k - 1], Mul(U[i][k], x[k, j]))
                IN  Div(Sub(V[i][j], s[n]), U[i][i])
        IN  [i \in 1..n |-> [j \in 1..Cols(V) |-> x[i, j]]])

\* A @ A.T
Outer(A) == MatMul(A, Transpose(A))
\* jnp.linalg.cholesky(A) of a positive definite A, column by column, and
\* the pivots it takes the roots of
CholeskyPivot(A, L, j) ==
    LET s[k \in 0..(j - 1)] ==
            IF k = 0 THEN Zero ELSE Add(s[k - 1], Mul(L[j, k], L[j, k]))
    IN  Sub(A[j][j], s[j - 1])
Cholesky(A) ==
    LET n == Rows(A)
        L[i \in 1..n, j \in 1..n] ==
            IF j > i THEN Zero
            ELSE IF i = j
                 THEN IF Less(Zero, CholeskyPivot(A, L, j))
                      THEN Sqrt(CholeskyPivot(A, L, j)) ELSE Zero
            ELSE IF L[j, j] = Zero THEN Zero
            ELSE LET s[k \in 0..(j - 1)] ==
                         IF k = 0 THEN Zero
                         ELSE Add(s[k - 1], Mul(L[i, k], L[j, k]))
                 IN  Div(Sub(A[i][j], s[j - 1]), L[j, j])
    IN  [i \in 1..n |-> [j \in 1..n |-> L[i, j]]]
\* whether A is positive definite with a Cholesky factor of rational entries
IsPositiveDefinite(A) ==
    \E X \in {A} :
        /\ X = Transpose(X)
        /\ Less(Zero, X[1][1])
        /\ \E L \in {Cholesky(X)} :
             /\ \A j \in 1..Rows(X) : Less(Zero, L[j][j])
             /\ Outer(L) = X
\* jnp.linalg.cholesky(A): the factor, and NaN in every entry when A is not
\* positive definite; a NaN entry of a matrix is written 0/0
nan == <<0, 0>>
NaNs(m, n) == [i \in 1..m |-> [j \in 1..n |-> nan]]
cholesky(A) ==
    Let(A, LAMBDA X : IF IsPositiveDefinite(X) THEN Cholesky(X)
                      ELSE NaNs(Rows(X), Cols(X)))

(***************************************************************************)
(* Square-root primitives (sqrt.propagate_cholesky_factor, update_sqrt,    *)
(* tril_to_positive_tril), after section 4.2 of the specification.         *)
(***************************************************************************)
\* a variant with sign(0) = 0: a column with a zero diagonal entry is zeroed
tril_to_positive_tril_sign0(tril_mat) ==
    Let(tril_mat, LAMBDA X :
        [i \in 1..Rows(X) |-> [j \in 1..Cols(X) |->
            IF Less(X[j][j], Zero) THEN Neg(X[i][j])
            ELSE IF X[j][j] = Zero THEN Zero ELSE X[i][j]]])
\* every column is multiplied by the sign of its diagonal entry, and the
\* sign of 0 is taken to be +1
tril_to_positive_tril(tril_mat) ==
    Let(tril_mat, LAMBDA X :
        [i \in 1..Rows(X) |-> [j \in 1..Cols(X) |->
            IF Less(X[j][j], Zero) THEN Neg(X[i][j]) ELSE X[i][j]]])

\* a variant without the sign correction
propagate_cholesky_factor_nosign(S1, S2, signs) ==
    Transpose(QR_R(VStack(Transpose(S1), Transpose(S2)), signs))
\* QR of the vertical stack of S1.T and S2.T, transposed and sign-corrected
propagate_cholesky_factor(S1, S2, signs) ==
    tril_to_positive_tril(
        Transpose(QR_R(VStack(Transpose(S1), Transpose(S2)), signs)))

\* the augmented block matrix of update_sqrt
update_sqrt_blockmat(H, SC) ==
    Let2(H, SC, LAMBDA X, Y :
        VStack(HStack(MatMul(Transpose(Y), Transpose(X)), Transpose(Y)),
               HStack(Zeros(Rows(X), Rows(X)), Zeros(Rows(X), Cols(X)))))

\* a variant whose gain skips the triangular solve
update_sqrt_nosolve(H, SC, signs) ==
    Let(QR_R(update_sqrt_blockmat(H, SC), signs), LAMBDA big_triu :
        LET m == Rows(H)
            n == Cols(H)
            R1 == Slice(big_triu, 1, m, 1, m)
            R2 == Slice(big_triu, 1, m, m + 1, m + n)
            R3 == Slice(big_triu, m + 1, m + n, m + 1, m + n)
        IN  IF \E i \in 1..m : big_triu[i][i] = Zero
            THEN Raise("NumericalBoundsError", "singular innovation covariance")
            ELSE Return([SC_new |-> tril_to_positive_tril(Transpose(R3)),
                         K |-> Transpose(R2),
                         L_S |-> tril_to_positive_tril(Transpose(R1))]))
\* one QR factorization of the block matrix gives the posterior factor, the
\* gain and the innovation factor; a singular innovation factor is an error
update_sqrt(H, SC, signs) ==
    Let(QR_R(update_sqrt_blockmat(H, SC), signs), LAMBDA big_triu :
        LET m == Rows(H)
            n == Cols(H)
            R1 == Slice(big_triu, 1, m, 1, m)
            R2 == Slice(big_triu, 1, m, m + 1, m + n)
            R3 == Slice(big_triu, m + 1, m + n, m + 1, m + n)
        IN  IF \E i \in 1..m : big_triu[i][i] = Zero
            THEN Raise("NumericalBoundsError", "singular innovation covariance")
            ELSE Return([SC_new |-> tril_to_positive_tril(Transpose(R3)),
                         K |-> Transpose(SolveUpperTriangular(R1, R2)),
                         L_S |-> tril_to_positive_tril(Transpose(R1))]))

(***************************************************************************)
(* Calls of the square-root primitives on their own.  The entries are      *)
(* chosen so that the norms of the factorizations are rational numbers     *)
(* (3, 4, 5); the calls whose norms are irrational are left out.           *)
(***************************************************************************)
MatEntries == {Rat(-3, 1), Zero, Rat(4, 1)}
MapEntries == {Zero, One}
\* the sizes n of the factors, and the shapes (m, n) of the measurement maps
MatSizes == {1, 2}
MapShapes == {<<1, 1>>, <<1, 2>>, <<2, 2>>}
Matrices(m, n, S) == [1..m -> [1..n -> S]]
LowerTriangular(n, S) == {M \in Matrices(n, n, S) : IsLowerTriangular(M)}
\* the matrix of the test of tril_to_positive_tril
TestTril == <<<<One, Zero, Zero>>, <<Rat(-1, 1), Zero, Zero>>,
              <<One, Rat(2, 1), Rat(3, 1)>>>>

CallPropagateCholeskyFactor ==
    /\ call = NoCall
    /\ \E n \in MatSizes :
         \E S1 \in Matrices(n, n, MatEntries), S2 \in LowerTriangular(n, MatEntries) :
            /\ HasRationalQR(VStack(Transpose(S1), Transpose(S2)))
            /\ \E signs \in Signs(n) :
                 call' = [op |-> "propagate_cholesky_factor", S1 |-> S1, S2 |-> S2,
                          signs |-> signs,
                          out |-> propagate_cholesky_factor(S1, S2, signs)]
    /\ UNCHANGED solveVars

CallUpdateSqrt ==
    /\ call = NoCall
    /\ \E shp \in MapShapes :
         \E H \in Matrices(shp[1], shp[2], MapEntries),
            SC \in LowerTriangular(shp[2], MatEntries) :
            /\ HasRationalQR(update_sqrt_blockmat(H, SC))
            /\ \E signs \in Signs(shp[1] + shp[2]) :
                 call' = [op |-> "update_sqrt", H |-> H, SC |-> SC, signs |-> signs,
                          out |-> update_sqrt(H, SC, signs)]
    /\ UNCHANGED solveVars

CallTrilToPositiveTril ==
    /\ call = NoCall
    /\ \E M \in (UNION {Matrices(n, n, MatEntries) : n \in MatSizes}) \cup {TestTril} :
            call' = [op |-> "tril_to_positive_tril", M |-> M,
                     out |-> tril_to_positive_tril(M),
                     again |-> tril_to_positive_tril(tril_to_positive_tril(M))]
    /\ UNCHANGED solveVars

NextSqrt ==
    \/ CallPropagateCholeskyFactor
    \/ CallUpdateSqrt
    \/ CallTrilToPositiveTril

SpecSqrt == InitCalls /\ [][NextSqrt]_vars

(***************************************************************************)
(* The structured prior (iwp.IntegratedWienerTransition), after section    *)
(* 4.1 of the specification.  The state is ordered by coordinate: entry    *)
(* (i - 1)(q + 1) + k + 1 is the k-th derivative of coordinate i.          *)
(***************************************************************************)
Factorial[n \in Nat] == IF n = 0 THEN 1 ELSE n * Factorial[n - 1]
Binomial(n, k) == Factorial[n] \div (Factorial[k] * Factorial[n - k])
\* jnp.kron(jnp.eye(d), K)
KronEye(d, K) ==
    [i \in 1..(d * Rows(K)) |-> [j \in 1..(d * Cols(K)) |->
        IF (i - 1) \div Rows(K) = (j - 1) \div Cols(K)
        THEN K[((i - 1) % Rows(K)) + 1][((j - 1) % Cols(K)) + 1]
        ELSE Zero]]
\* jnp.diag(v) of a vector
DiagMatrix(v) == [i \in 1..Len(v) |-> [j \in 1..Len(v) |-> IF i = j THEN v[i] ELSE Zero]]

IntegratedWienerTransition(wiener_process_dimension, num_derivatives) ==
    [wiener_process_dimension |-> wiener_process_dimension,
     num_derivatives |-> num_derivatives]

\* projection_matrix_1d(k) and projection_matrix(k) = kron(I_d, e_k)
projection_matrix_1d(iwp, k) ==
    <<[j \in 1..(iwp.num_derivatives + 1) |-> IF j = k + 1 THEN One ELSE Zero]>>
projection_matrix(iwp, k) ==
    KronEye(iwp.wiener_process_dimension, projection_matrix_1d(iwp, k))

\* the 1-D transition matrix A(dt): entry (i, j) is dt^(j-i) / (j-i)!
transition_matrix_1d(iwp, h) ==
    [i \in 1..(iwp.num_derivatives + 1) |-> [j \in 1..(iwp.num_derivatives + 1) |->
        IF j < i THEN Zero ELSE Div(Pow(h, j - i), Rat(Factorial[j - i], 1))]]
\* the 1-D process-noise factor.  Its entries are irrational numbers; the
\* model puts a lower-triangular matrix with rational entries in its place
process_noise_factor_1d(iwp) ==
    [i \in 1..(iwp.num_derivatives + 1) |-> [j \in 1..(iwp.num_derivatives + 1) |->
        IF i = j THEN Rat(3, 1) ELSE IF i = 2 /\ j = 1 THEN Rat(4, 1) ELSE Zero]]

\* non_preconditioned_discretize(dt) -> (A, Ql), dense, of size d (q + 1)
non_preconditioned_discretize(iwp, h) ==
    [A |-> KronEye(iwp.wiener_process_dimension, transition_matrix_1d(iwp, h)),
     Ql |-> KronEye(iwp.wiener_process_dimension,
                    MatScale(h, process_noise_factor_1d(iwp)))]
\* preconditioned_discretize_1d and preconditioned_discretize: independent of dt
preconditioned_discretize_1d(iwp) ==
    [A |-> [i \in 1..(iwp.num_derivatives + 1) |-> [j \in 1..(iwp.num_derivatives + 1) |->
                IF j < i THEN Zero ELSE Rat(Binomial(j - 1, i - 1), 1)]],
     Ql |-> process_noise_factor_1d(iwp)]
preconditioned_discretize(iwp) ==
    [A |-> KronEye(iwp.wiener_process_dimension, preconditioned_discretize_1d(iwp).A),
     Ql |-> KronEye(iwp.wiener_process_dimension, preconditioned_discretize_1d(iwp).Ql)]
\* nordsieck_preconditioner_1d(dt) and nordsieck_preconditioner(dt) -> (P, PI):
\* the k-th derivative is scaled by dt^k / k!
nordsieck_preconditioner_1d(iwp, h) ==
    [P |-> DiagMatrix([k \in 1..(iwp.num_derivatives + 1) |->
                Div(Pow(h, k - 1), Rat(Factorial[k - 1], 1))]),
     PI |-> DiagMatrix([k \in 1..(iwp.num_derivatives + 1) |->
                Div(Rat(Factorial[k - 1], 1), Pow(h, k - 1))])]
nordsieck_preconditioner(iwp, h) ==
    [P |-> KronEye(iwp.wiener_process_dimension, nordsieck_preconditioner_1d(iwp, h).P),
     PI |-> KronEye(iwp.wiener_process_dimension, nordsieck_preconditioner_1d(iwp, h).PI)]

(***************************************************************************)
(* Initial value problems with the linear vector field f(t, y) = lam * y   *)
(* and the Taylor-mode initializer.                                        *)
(***************************************************************************)
\* the values of lam
Slopes == {Zero, Rat(8, 3)}
LinearIVPs ==
    {[t0 |-> Zero, tmax |-> One, y0 |-> [i \in 1..d |-> Rat(i, 1)],
      dimension |-> d, lam |-> lam] : d \in 1..MaxDim, lam \in Slopes}
\* ivp.f(t, y) and ivp.df(t, y)
f(ivp, t, x) == VecScale(ivp.lam, x)
df(ivp, t, x) == ScaledEye(ivp.dimension, ivp.lam)

\* init.taylor_mode(fun, y0, t0, num_derivatives): the array of shape
\* (num_derivatives + 1, d) whose row k holds the k-th derivative at t0
taylor_mode(ivp, num_derivatives) ==
    [k \in 1..(num_derivatives + 1) |-> VecScale(Pow(ivp.lam, k - 1), ivp.y0)]
\* X.reshape((-1,), order="F"): the columns of X one after the other
ReshapeF(X) ==
    [n \in 1..(Rows(X) * Cols(X)) |-> X[((n - 1) % Rows(X)) + 1][((n - 1) \div Rows(X)) + 1]]
\* TaylorModeInitialization()(ivp, iwp): the mean and a zero covariance factor
TaylorModeInitialization(ivp, iwp) ==
    MultivariateNormal(
        ReshapeF(taylor_mode(ivp, iwp.num_derivatives)),
        Zeros(ivp.dimension * (iwp.num_derivatives + 1),
              ivp.dimension * (iwp.num_derivatives + 1)))


(***************************************************************************)
(* The solvers of ek0.py and enkf.py: construction and initialize.         *)
(***************************************************************************)
\* the trajectory state with its ivp and its random variable y
\* (odesolver.ODEFilterState as ek0.py builds it)
FilterState(ivp, t, error_estimate, reference_state, rv) ==
    [ivp |-> ivp, t |-> t, error_estimate |-> error_estimate,
     reference_state |-> reference_state, y |-> rv]
\* enkf.StateEnsemble and its methods
StateEnsemble(ivp, t, samples, error_estimate, reference_state) ==
    [ivp |-> ivp, t |-> t, samples |-> samples,
     error_estimate |-> error_estimate, reference_state |-> reference_state]
StateEnsemble_ensemble_size(st) == Cols(st.samples)
StateEnsemble_dim(st) == Rows(st.samples)
\* jnp.mean(samples, 1)
RowMeans(samples) ==
    Let(samples, LAMBDA X :
        [i \in 1..Rows(X) |-> Div(Dot(X[i], Full(Cols(X), One)), Rat(Cols(X), 1))])
StateEnsemble_mean(st) == RowMeans(st.samples)
\* jnp.cov(samples): the rows are the variables, normalisation by N - 1
\* (two samples at least)
StateEnsemble_sample_cov(st) ==
    Let2(st.samples, StateEnsemble_mean(st), LAMBDA X, mean :
    Let([i \in 1..Rows(X) |-> VecSub(X[i], Full(Cols(X), mean[i]))],
        LAMBDA centered :
        MatScale(Div(One, Rat(Cols(X) - 1, 1)),
                 MatMul(centered, Transpose(centered)))))

\* StateEnsemble.y: the mean and the Cholesky factor of the sample covariance
StateEnsemble_y(st) ==
    MultivariateNormal(StateEnsemble_mean(st), cholesky(StateEnsemble_sample_cov(st)))
\* MultivariateNormal.cov: cov_sqrtm @ cov_sqrtm.T
MultivariateNormal_cov(rv) ==
    Let(rv.cov_sqrtm, LAMBDA L :
        IF \E i \in 1..Rows(L) : \E j \in 1..Cols(L) : L[i][j] = nan
        THEN NaNs(Rows(L), Rows(L))
        ELSE Outer(L))

\* the solver objects before initialize
ReferenceEK0(solver_order, rule) ==
    [variant |-> "ReferenceEK0", solver_order |-> solver_order, steprule |-> rule,
     iwp |-> None, E0 |-> None, E1 |-> None, I |-> None]
EK0(solver_order, rule) ==
    [variant |-> "EK0", solver_order |-> solver_order, steprule |-> rule,
     d |-> None, q |-> None, iwp |-> None, A |-> None, Ql |-> None,
     E0 |-> None, E1 |-> None, e0 |-> None, e1 |-> None, Id |-> None, Iq1 |-> None]
EnK1(num_derivatives, rule, ensemble_size, prng_key) ==
    [variant |-> "EnK1", num_derivatives |-> num_derivatives, steprule |-> rule,
     P0 |-> None, E0 |-> None, E1 |-> None, iwp |-> None,
     ensemble_size |-> ensemble_size, prng_key |-> prng_key]

\* ReferenceEK0.initialize(ivp): the solver with its operators and the first state
ReferenceEK0_initialize(self, ivp) ==
    LET d == ivp.dimension
        q == self.solver_order
        iwp == IntegratedWienerTransition(d, q)
        Y0_full == TaylorModeInitialization(ivp, iwp)
    IN  [self |-> [self EXCEPT !.iwp = iwp,
                               !.E0 = projection_matrix(iwp, 0),
                               !.E1 = projection_matrix(iwp, 1),
                               !.I = Eye(d * (q + 1))],
         state |-> FilterState(ivp, ivp.t0, None, ivp.y0, Y0_full)]

\* EK0.initialize keeping the initializer's full factor instead of the
\* Kronecker factor
EK0_initialize_full(self, ivp) ==
    LET d == ivp.dimension
        q == self.solver_order
        iwp == IntegratedWienerTransition(d, q)
        Y0_full == TaylorModeInitialization(ivp, iwp)
        Y0_kron == MultivariateNormal(Y0_full.mean, Zeros(q + 1, q + 1))
    IN  [self |-> [self EXCEPT !.d = d, !.q = q, !.iwp = iwp,
                               !.A = preconditioned_discretize_1d(iwp).A,
                               !.Ql = preconditioned_discretize_1d(iwp).Ql,
                               !.E0 = projection_matrix(iwp, 0),
                               !.E1 = projection_matrix(iwp, 1),
                               !.e0 = projection_matrix_1d(iwp, 0),
                               !.e1 = projection_matrix_1d(iwp, 1),
                               !.Id = Eye(d),
                               !.Iq1 = Eye(q + 1)],
         state |-> FilterState(ivp, ivp.t0, None, ivp.y0, Y0_full)]
\* EK0.initialize(ivp): the covariance factor is the (q+1) x (q+1) Kronecker
\* factor
EK0_initialize(self, ivp) ==
    LET d == ivp.dimension
        q == self.solver_order
        iwp == IntegratedWienerTransition(d, q)
        Y0_full == TaylorModeInitialization(ivp, iwp)
        Y0_kron == MultivariateNormal(Y0_full.mean, Zeros(q + 1, q + 1))
    IN  [self |-> [self EXCEPT !.d = d, !.q = q, !.iwp = iwp,
                               !.A = preconditioned_discretize_1d(iwp).A,
                               !.Ql = preconditioned_discretize_1d(iwp).Ql,
                               !.E0 = projection_matrix(iwp, 0),
                               !.E1 = projection_matrix(iwp, 1),
                               !.e0 = projection_matrix_1d(iwp, 0),
                               !.e1 = projection_matrix_1d(iwp, 1),
                               !.Id = Eye(d),
                               !.Iq1 = Eye(q + 1)],
         state |-> FilterState(ivp, ivp.t0, None, ivp.y0, Y0_kron)]

\* EnK1.initialize(ivp): the mean repeated ensemble_size times; the reference
\* state is None
EnK1_initialize(self, ivp) ==
    LET iwp == IntegratedWienerTransition(ivp.dimension, self.num_derivatives)
        mean == ReshapeF(taylor_mode(ivp, iwp.num_derivatives))
        init_states == [i \in 1..Len(mean) |-> Full(self.ensemble_size, mean[i])]
    IN  [self |-> [self EXCEPT !.iwp = iwp,
                               !.P0 = projection_matrix(iwp, 0),
                               !.E0 = projection_matrix(iwp, 0),
                               !.E1 = projection_matrix(iwp, 1)],
         state |-> StateEnsemble(ivp, ivp.t0, init_states, None, None)]

\* initialize of the solver's class
Solver_initialize(self, ivp) ==
    IF self.variant = "ReferenceEK0" THEN ReferenceEK0_initialize(self, ivp)
    ELSE IF self.variant = "EK0" THEN EK0_initialize(self, ivp)
    ELSE EnK1_initialize(self, ivp)


(***************************************************************************)
(* attempt_step of the three solvers.  The result holds the solver object  *)
(* after the call, what the call returned or raised, and the phases the    *)
(* call went through.                                                      *)
(***************************************************************************)
StepResult(self, out, phases) == [self |-> self, out |-> out, phases |-> phases]

\* ReferenceEK0.attempt_step(state, dt); signs1 and signs2 are the row signs
\* of the two QR factorizations
ReferenceEK0_attempt_step(self, st, h, signs1, signs2) ==
    \* [Setup]
    Let2(non_preconditioned_discretize(self.iwp, h), st, LAMBDA disc, s0 :
    \* [Predict]
    Let2(MatVec(disc.A, s0.y.mean),
         propagate_cholesky_factor(MatMul(disc.A, s0.y.cov_sqrtm), disc.Ql, signs1),
         LAMBDA mp, Clp :
    \* [Measure], with H = E1, and [Update]
    Let2(VecSub(MatVec(self.E1, mp), f(s0.ivp, Add(s0.t, h), MatVec(self.E0, mp))),
         update_sqrt(self.E1, Clp, signs2),
         LAMBDA z, upd :
        IF upd.raised
        THEN StepResult(self, upd, <<"predict_mean", "predict_covariance", "measure">>)
        ELSE Let(VecSub(mp, MatVec(upd.value.K, z)), LAMBDA m_new :
                StepResult(self,
                    Return(FilterState(s0.ivp, Add(s0.t, h), None,
                                       MatVec(self.E0, m_new),
                                       MultivariateNormal(m_new, upd.value.SC_new))),
                    <<"predict_mean", "predict_covariance", "measure", "update">>)))))

\* EK0.attempt_step(state, dt): the second line of the body reads the name y,
\* which is not defined
EK0_attempt_step(self, st, h) ==
    StepResult(self, Raise("NameError", "name 'y' is not defined"), <<"setup">>)

\* jax.random.split(key) and jax.random.normal(key, shape): the keys are
\* numbers, the draw is a function of the key and different keys give
\* different draws
NumKeys == 8
split(key) == <<(3 * key + 2) % NumKeys, (3 * key + 1) % NumKeys>>
normal(key, rows, cols) ==
    [i \in 1..rows |-> [j \in 1..cols |->
        IF i = 1 /\ j = 1 THEN Rat(key - 3, 1)
        ELSE Rat(((key + i + 2 * j) % 3) - 1, 1)]]

\* sqrt.sqrtm_to_cholesky(St): the factor R of St, transposed and sign-corrected
sqrtm_to_cholesky(St, signs) == tril_to_positive_tril(Transpose(QR_R(St, signs)))

\* EnK1.evaluate_ode(t, f, df, p, m_pred, e0, e1)
EnK1_evaluate_ode(ivp, t, p, m_pred, e0, e1) ==
    Let2(MatMul(e0, p), MatMul(e1, p), LAMBDA P0, P1 :
    Let(MatVec(P0, m_pred), LAMBDA m_at :
    Let2(f(ivp, t, m_at), df(ivp, t, m_at), LAMBDA fx, Jx :
    Let2(MatSub(P1, MatMul(Jx, P0)), VecSub(MatVec(Jx, m_at), fx), LAMBDA H, b :
        [H |-> H, b |-> b,
         z |-> Let(MatVec(H, m_pred), LAMBDA Hm :
                   [i \in 1..Len(b) |-> Add(Hm[i], b[i])])]))))

\* EnK1.estimate_error(H, sq, z)
EnK1_estimate_error(H, sq, z, signs) ==
    Let(sqrtm_to_cholesky(Transpose(MatMul(H, sq)), signs), LAMBDA s_chol :
    Let(Column(SolveUpperTriangular(Transpose(s_chol),
                                    [i \in 1..Len(z) |-> <<z[i]>>]), 1),
        LAMBDA whitened_res :
    Let(Div(Dot(whitened_res, whitened_res), Rat(Len(whitened_res), 1)),
        LAMBDA sigma_squared :
    Let2(Sqrt(sigma_squared), MatMul(s_chol, Transpose(s_chol)), LAMBDA sigma, S :
        [error_estimate |-> [i \in 1..Len(z) |-> Mul(sigma, Sqrt(S[i][i]))],
         sigma |-> sigma,
         sigma_squared |-> sigma_squared]))))

\* jnp.linalg.solve(S, B) for a 1 x 1 matrix S
Solve(S, B) == MatScale(Div(One, S[1][1]), B)

\* EnK1.attempt_step(state, dt) up to the innovation covariance S; signs are
\* the row signs of the QR factorization in estimate_error
EnK1_step(self, st, h, signs) ==
    \* [Setup]
    Let2(preconditioned_discretize(self.iwp), nordsieck_preconditioner(self.iwp, h),
         LAMBDA disc, pre :
    \* [Predict]
    Let(MatVec(disc.A, MatVec(pre.PI, StateEnsemble_mean(st))), LAMBDA predicted_mean :
    \* [Calibration]
    Let(EnK1_evaluate_ode(st.ivp, Add(st.t, h), pre.P, predicted_mean,
                          self.E0, self.E1), LAMBDA ode :
    Let(EnK1_estimate_error(ode.H, disc.Ql, ode.z, signs), LAMBDA est :
    Let(MatMul(disc.Ql, normal(self.prng_key, StateEnsemble_dim(st),
                               StateEnsemble_ensemble_size(st))), LAMBDA w :
    Let(MatAdd(MatMul(disc.A, MatMul(pre.PI, st.samples)), MatScale(est.sigma, w)),
        LAMBDA pred_samples :
    Let(StateEnsemble_sample_cov([samples |-> pred_samples]), LAMBDA sample_cov :
    Let2(MatMul(ode.H, pred_samples), MatMul(sample_cov, Transpose(ode.H)),
         LAMBDA Hx, CHT :
        [t_new |-> Add(st.t, h), P |-> pre.P, H |-> ode.H, z |-> ode.z,
         predicted_mean |-> predicted_mean, est |-> est,
         pred_samples |-> pred_samples,
         z_samples |-> [i \in 1..Rows(Hx) |-> [j \in 1..Cols(Hx) |->
                           Add(Hx[i][j], ode.b[i])]],
         CHT |-> CHT,
         S |-> MatMul(ode.H, CHT)]))))))))

\* EnK1.attempt_step(state, dt): the solver's key is replaced by one half of
\* its split
EnK1_attempt_step(self, st, h, signs) ==
    Let(EnK1_step(self, st, h, signs), LAMBDA c :
    \* Update
    Let(MatMul(c.P, MatSub(c.pred_samples, MatMul(c.CHT, Solve(c.S, c.z_samples)))),
        LAMBDA updated_samples :
    Let2(MatVec(self.E0, RowMeans(st.samples)),
         MatVec(self.E0, RowMeans(updated_samples)), LAMBDA y1, y2 :
        StepResult([self EXCEPT !.prng_key = split(self.prng_key)[2]],
            Return(StateEnsemble(st.ivp, c.t_new, updated_samples,
                       c.est.error_estimate,
                       [i \in 1..Len(y1) |->
                           IF Less(RAbs(y1[i]), RAbs(y2[i]))
                           THEN RAbs(y2[i]) ELSE RAbs(y1[i])])),
            <<"predict_mean", "measure", "calibrate", "predict_covariance", "update">>))))

\* whether the model can follow EnK1.attempt_step on this input: one ODE
\* coordinate, rational roots, and an innovation covariance other than 0
EnK1_CanStep(self, st, h, signs) ==
    /\ st.ivp.dimension = 1
    /\ \E disc \in {preconditioned_discretize(self.iwp)},
          pre \in {nordsieck_preconditioner(self.iwp, h)} :
         \E ode \in {EnK1_evaluate_ode(st.ivp, Add(st.t, h), pre.P,
                        MatVec(disc.A, MatVec(pre.PI, StateEnsemble_mean(st))),
                        self.E0, self.E1)} :
            HasRationalQR(Transpose(MatMul(ode.H, disc.Ql)))
    /\ \E c \in {EnK1_step(self, st, h, signs)} :
         /\ IsSquare(c.est.sigma_squared)
         /\ c.S[1][1] # Zero

(***************************************************************************)
(* kalman.smoother_step_sqrt.                                              *)
(***************************************************************************)
\* smoother_step_sqrt(m, sc, m_fut, sc_fut, sgain, sq, mp, x).  qr(M, mode="r")
\* returns the array R or, depending on the version of the library, a tuple
\* holding it; indexing the tuple with two slices is a TypeError.
smoother_step_sqrt(m, sc, m_fut, sc_fut, sgain, sq, mp, x, signs, qr_returns_tuple) ==
    LET d == Len(m)
        new_mean == VecSub(m, MatVec(sgain, VecSub(mp, m_fut)))
        zeros == Zeros(d, d)
        M == VStack(VStack(HStack(Transpose(x), Transpose(sc)),
                           HStack(Transpose(sq), Transpose(zeros))),
                    HStack(Transpose(zeros),
                           MatMul(Transpose(sc_fut), Transpose(sgain))))
    IN  IF qr_returns_tuple
        THEN Raise("TypeError", "tuple indices must be integers or slices, not tuple")
        ELSE Let(QR_R(M, signs), LAMBDA R :
                Return([new_mean |-> new_mean,
                        new_cov_cholesky |-> Transpose(Slice(R, 1, d, d + 1, 2 * d))]))

(***************************************************************************)
(* Calls of initialize, attempt_step and smoother_step_sqrt.  A call of    *)
(* attempt_step is made twice, one after the other, on the same solver     *)
(* object with the same state and step.                                    *)
(***************************************************************************)
StepRules == {ConstantSteps(Rat(1, 2)),
              AdaptiveSteps(Rat(1, 2), Rat(1, 100), Rat(1, 100), Rat(1, 100), One)}
StepSizes == {Rat(1, 2), One}
PrngKeys == {0, 5}
EnsembleSizes == {2}
Solvers ==
    {ReferenceEK0(q, rule) : q \in 1..MaxOrder, rule \in StepRules}
    \cup {EK0(q, rule) : q \in 1..MaxOrder, rule \in StepRules}
    \cup {EnK1(q, rule, N, key) : q \in 1..MaxOrder, rule \in StepRules,
                                  N \in EnsembleSizes, key \in PrngKeys}

\* attempt_step of the solver's class, and whether the model can follow it
\* (the norms and roots it takes are rational numbers)
Solver_attempt_step(self, st, h, k) ==
    IF self.variant = "ReferenceEK0"
    THEN ReferenceEK0_attempt_step(self, st, h,
             SignPattern(k, Len(st.y.mean)),
             SignPattern(k, Len(st.y.mean) + st.ivp.dimension))
    ELSE IF self.variant = "EK0" THEN EK0_attempt_step(self, st, h)
    ELSE EnK1_attempt_step(self, st, h, SignPattern(k, 1))
Solver_CanStep(self, st, h, k) ==
    IF self.variant = "ReferenceEK0"
    THEN LET A == non_preconditioned_discretize(self.iwp, h).A
             Ql == non_preconditioned_discretize(self.iwp, h).Ql
         IN  /\ HasRationalQR(VStack(Transpose(MatMul(A, st.y.cov_sqrtm)),
                                     Transpose(Ql)))
             /\ HasRationalQR(update_sqrt_blockmat(self.E1,
                    propagate_cholesky_factor(MatMul(A, st.y.cov_sqrtm), Ql,
                                              SignPattern(k, Len(st.y.mean)))))
    ELSE IF self.variant = "EK0" THEN TRUE
    ELSE EnK1_CanStep(self, st, h, SignPattern(k, 1))

CallInitialize ==
    /\ call = NoCall
    /\ \E self \in Solvers, ivp \in LinearIVPs :
         \E res \in {Solver_initialize(self, ivp)} :
            call' = [op |-> "initialize", solver |-> self, ivp |-> ivp,
                     after |-> res.self, out |-> res.state]
    /\ UNCHANGED solveVars

\* attempt_step, twice, on the solver and the state that initialize left
CallAttemptStep ==
    /\ call.op = "initialize"
    /\ \E self \in {call.after}, st \in {call.out},
          h \in StepSizes, k \in SignPatterns :
            /\ Leq(Add(st.t, h), st.ivp.tmax)
            /\ Solver_CanStep(self, st, h, k)
            /\ \E first \in {Solver_attempt_step(self, st, h, k)} :
                 \E second \in {Solver_attempt_step(first.self, st, h, k)} :
                    call' = [op |-> "attempt_step", solver |-> self, st |-> st,
                             dt |-> h, first |-> first, second |-> second]
    /\ UNCHANGED solveVars

CallSmootherStepSqrt ==
    /\ call = NoCall
    /\ \E d \in MatSizes, k \in SignPatterns, qr_returns_tuple \in BOOLEAN :
         \E x \in MatEntries, sc \in MatEntries, sq \in MatEntries,
            sc_fut \in {Rat(4, 1)}, sgain \in {Zero, One} :
            \E inp \in {[m |-> Full(d, One), sc |-> ScaledEye(d, sc),
                         m_fut |-> Full(d, Rat(2, 1)), sc_fut |-> ScaledEye(d, sc_fut),
                         sgain |-> ScaledEye(d, sgain), sq |-> ScaledEye(d, sq),
                         mp |-> Full(d, Rat(3, 1)), x |-> ScaledEye(d, x)]} :
               /\ HasRationalQR(
                     VStack(VStack(HStack(Transpose(inp.x), Transpose(inp.sc)),
                                   HStack(Transpose(inp.sq), Zeros(d, d))),
                            HStack(Zeros(d, d),
                                   MatMul(Transpose(inp.sc_fut), Transpose(inp.sgain)))))
               /\ call' = [op |-> "smoother_step_sqrt", inp |-> inp,
                           signs |-> SignPattern(k, 2 * d),
                           qr_returns_tuple |-> qr_returns_tuple,
                           out |-> smoother_step_sqrt(inp.m, inp.sc, inp.m_fut,
                                       inp.sc_fut, inp.sgain, inp.sq, inp.mp, inp.x,
                                       SignPattern(k, 2 * d), qr_returns_tuple)]
    /\ UNCHANGED solveVars

NextSteps ==
    \/ CallInitialize
    \/ CallAttemptStep
    \/ CallSmootherStepSqrt

SpecSteps == InitCalls /\ [][NextSteps]_vars


(***************************************************************************)
(* Properties of the square-root primitives.                               *)
(***************************************************************************)
\* C17: whenever update_sqrt(H, SC) returns for an m x n map H and an n x n
\* factor SC, SC_new has the shape of SC, K is n x m and L_S is m x m,
\* L_S L_S^T = H SC SC^T H^T, K (H SC SC^T H^T) = SC SC^T H^T, i.e. K is
\* SC SC^T H^T times the inverse of the innovation covariance,
\* SC_new SC_new^T = SC SC^T - K (H SC SC^T H^T) K^T, and SC_new and L_S are
\* lower-triangular with non-negative diagonal.
C17_UpdateSqrtIdentities ==
    (call.op = "update_sqrt" /\ ~call.out.raised) =>
        LET H == call.H
            SC == call.SC
            o == call.out.value
            C == Outer(SC)
            S == MatMul(MatMul(H, C), Transpose(H))
        IN  /\ MatShape(o.SC_new) = MatShape(SC)
            /\ MatShape(o.K) = <<Cols(H), Rows(H)>>
            /\ MatShape(o.L_S) = <<Rows(H), Rows(H)>>
            /\ Outer(o.L_S) = S
            /\ MatMul(o.K, S) = MatMul(C, Transpose(H))
            /\ Outer(o.SC_new) = MatSub(C, MatMul(MatMul(o.K, S), Transpose(o.K)))
            /\ IsLowerTriangular(o.SC_new) /\ HasNonNegativeDiagonal(o.SC_new)
            /\ IsLowerTriangular(o.L_S) /\ HasNonNegativeDiagonal(o.L_S)

\* an update with a 2 x 2 map and a factor of full rank has returned, from
\* a factorization whose rows had negative signs, and the gain is not zero
C17_Witness ==
    /\ call.op = "update_sqrt"
    /\ ~call.out.raised
    /\ MatShape(call.H) = <<2, 2>>
    /\ call.signs[1] = -1
    /\ \A i \in 1..2 : call.SC[i][i] # Zero
    /\ call.out.value.K # Zeros(2, 2)
    /\ call.out.value.K # Transpose(call.H)

\* C18: propagate_cholesky_factor(S1, S2) is a lower-triangular R with
\* non-negative diagonal and R R^T = S1 S1^T + S2 S2^T, and R is the Cholesky
\* factor of that sum when the sum is positive definite.
C18_PropagateCholeskyFactor ==
    (call.op = "propagate_cholesky_factor") =>
        LET R == call.out
            cov == MatAdd(Outer(call.S1), Outer(call.S2))
        IN  /\ IsLowerTriangular(R)
            /\ HasNonNegativeDiagonal(R)
            /\ Outer(R) = cov
            /\ IsPositiveDefinite(cov) => R = Cholesky(cov)

\* a 2 x 2 propagation with a positive definite sum, a non-zero S2 and an S1
\* that is not triangular, from a factorization with a negative sign
C18_Witness ==
    /\ call.op = "propagate_cholesky_factor"
    /\ Rows(call.S1) = 2
    /\ ~IsLowerTriangular(call.S1)
    /\ call.S2 # Zeros(2, 2)
    /\ call.signs[1] = -1
    /\ IsPositiveDefinite(MatAdd(Outer(call.S1), Outer(call.S2)))
    /\ call.out[2][1] # Zero

\* C19: tril_to_positive_tril applied twice gives what it gives applied
\* once; a lower-triangular matrix with non-negative diagonal, zero diagonal
\* entries included, is returned unchanged; the result for a
\* lower-triangular matrix has a non-negative diagonal.
C19_TrilToPositiveTril ==
    (call.op = "tril_to_positive_tril") =>
        /\ call.again = call.out
        /\ (IsLowerTriangular(call.M) /\ HasNonNegativeDiagonal(call.M))
                => call.out = call.M
        /\ IsLowerTriangular(call.M) => HasNonNegativeDiagonal(call.out)

\* the matrix of the test, whose second column has a zero diagonal entry and
\* a non-zero entry below it, has been returned unchanged
C19_Witness ==
    /\ call.op = "tril_to_positive_tril"
    /\ call.M = TestTril
    /\ call.out = TestTril

\* a lower-triangular matrix with a negative diagonal entry has been changed
C19_WitnessFlip ==
    /\ call.op = "tril_to_positive_tril"
    /\ IsLowerTriangular(call.M)
    /\ ~HasNonNegativeDiagonal(call.M)
    /\ call.out # call.M

(***************************************************************************)
(* What solve returns.                                                     *)
(***************************************************************************)
\* C16: solve with benchmark_mode=true returns the last yielded state and the
\* solver; with benchmark_mode=false the lists t, y, mean, cov_sqrtm and cov of
\* the solution have one entry per yielded state, in yield order, the first
\* being the initial state at t0, and entry i of every list is taken from
\* the i-th yielded state.
C16_SolveReturnsYieldedStates ==
    (pc = "returned") =>
        IF args.benchmark_mode
        THEN /\ result.state = yielded[Len(yielded)]
             /\ result.solver = solver
        ELSE LET sol == result.solution
                 n == Len(yielded)
             IN  /\ result.solver = solver
                 /\ Len(sol.t) = n
                 /\ Len(sol.y) = n
                 /\ Len(ODESolution_mean(sol)) = n
                 /\ Len(ODESolution_cov_sqrtm(sol)) = n
                 /\ Len(ODESolution_cov(sol)) = n
                 /\ yielded[1] = initialize(args.ivp, solver.num_derivatives)
                 /\ sol.t[1] = args.ivp.t0
                 /\ \A i \in 1..n :
                      /\ sol.t[i] = yielded[i].t
                      /\ sol.y[i] = state_y(yielded[i])
                      /\ ODESolution_mean(sol)[i] = yielded[i].mean
                      /\ ODESolution_cov_sqrtm(sol)[i] = yielded[i].cov_sqrtm
                      /\ ODESolution_cov(sol)[i] =
                            MatMul(yielded[i].cov_sqrtm, Transpose(yielded[i].cov_sqrtm))

\* a solve without benchmark mode has returned a solution of three states
\* whose first and last means differ
C16_Witness ==
    /\ pc = "returned"
    /\ ~args.benchmark_mode
    /\ Len(yielded) >= 3
    /\ Len(result.solution.y) = Len(yielded)
    /\ result.solution.y[1] # result.solution.y[3]

\* a solve in benchmark mode has returned after two steps
C16_WitnessBenchmark ==
    /\ pc = "returned"
    /\ args.benchmark_mode
    /\ Len(yielded) >= 3
    /\ result.state.t = args.ivp.tmax


(***************************************************************************)
(* Properties of initialize, attempt_step and the smoother step.           *)
(***************************************************************************)
\* the Gaussian of a trajectory state of either kind
StateY(st) == IF "samples" \in DOMAIN st THEN StateEnsemble_y(st) ELSE st.y

\* C15: initialize(ivp) returns, for every solver variant, a first state with
\* t = ivp.t0, reference_state = ivp.y0 and no error estimate, whose mean is
\* the initializer's output and whose 0th-derivative block equals y0.
C15_InitializeReturnsFirstState ==
    (call.op = "initialize") =>
        /\ call.out.t = call.ivp.t0
        /\ call.out.reference_state = call.ivp.y0
        /\ call.out.error_estimate = None
        /\ StateY(call.out).mean
             = TaylorModeInitialization(call.ivp, call.after.iwp).mean
        /\ MatVec(call.after.E0, StateY(call.out).mean) = call.ivp.y0


\* C14: at every point of a solve the state mean has length d*(q+1) and the
\* covariance factor and the derived covariance are square of that same
\* size, for ODE dimension d and solver order q; the block extracted by the
\* 0th-derivative projection has size d.
StateDimension(self, ivp) ==
    ivp.dimension * ((IF self.variant = "EnK1" THEN self.num_derivatives
                      ELSE self.solver_order) + 1)
HasStateShapes(self, st, n) ==
    /\ Len(StateY(st).mean) = st.ivp.dimension * (self.iwp.num_derivatives + 1)
    /\ Len(StateY(st).mean) = StateDimension(self, st.ivp)
    /\ MatShape(StateY(st).cov_sqrtm) = <<n, n>>
    /\ MatShape(MultivariateNormal_cov(StateY(st))) = <<n, n>>
    /\ Len(MatVec(self.E0, StateY(st).mean)) = st.ivp.dimension
FactorDimension(self, ivp) ==
    IF self.variant = "EK0" THEN self.solver_order + 1
    ELSE StateDimension(self, ivp)
C14_WitnessStep ==
    /\ call.op = "attempt_step"
    /\ call.solver.variant = "ReferenceEK0"
    /\ call.st.ivp.dimension = 2
    /\ ~call.first.out.raised
    /\ Len(call.first.out.value.y.mean) = 2 * (call.solver.solver_order + 1)

\* C12: attempt_step(state, dt) is a pure function of (state, dt): it leaves
\* every attribute of the solver object unchanged, so two calls on the same
\* solver with the same state and dt return the same candidate, whose time is
\* state.t + dt.
C12_AttemptStepIsPure ==
    (call.op = "attempt_step") =>
        /\ call.first.self = call.solver
        /\ call.second.self = call.solver
        /\ call.second.out = call.first.out
        /\ ~call.first.out.raised =>
              call.first.out.value.t = Add(call.st.t, call.dt)

\* C13: every covariance factor held in a trajectory state - the one produced
\* by initialize, by each attempt_step, and by the smoother step - is
\* lower-triangular with non-negative diagonal.
IsCholeskyFactor(L) == IsLowerTriangular(L) /\ HasNonNegativeDiagonal(L)
C13_FactorsLowerTriangular ==
    /\ (call.op = "initialize" /\ call.solver.variant # "EnK1") =>
          IsCholeskyFactor(call.out.y.cov_sqrtm)
    /\ (call.op = "attempt_step" /\ call.solver.variant # "EnK1"
           /\ ~call.first.out.raised) =>
          IsCholeskyFactor(call.first.out.value.y.cov_sqrtm)
    /\ (call.op = "smoother_step_sqrt" /\ ~call.out.raised
           /\ IsCholeskyFactor(call.inp.sc) /\ IsCholeskyFactor(call.inp.sq)
           /\ IsCholeskyFactor(call.inp.sc_fut)) =>
          IsCholeskyFactor(call.out.value.new_cov_cholesky)

\* C20: within one attempt_step of EK0 and of EnK1 the phases run in the
\* order predict mean, measure residual, calibrate, predict covariance,
\* update, and a candidate is returned.
C20_PhaseOrder ==
    (call.op = "attempt_step" /\ call.solver.variant \in {"EK0", "EnK1"}) =>
        /\ ~call.first.out.raised
        /\ call.first.phases = <<"predict_mean", "measure", "calibrate",
                                 "predict_covariance", "update">>

(***************************************************************************)
(* The vec trick of ek0.py.                                                *)
(***************************************************************************)
\* v.reshape(m, n, order="F"): entry (i, j) is entry (j - 1) * m + i of v
ReshapeVecF(v, m, n) == [i \in 1..m |-> [j \in 1..n |-> v[(j - 1) * m + i]]]
\* v.reshape(m, n) in row-major order, and its inverse
ReshapeVecC(v, m, n) == [i \in 1..m |-> [j \in 1..n |-> v[(i - 1) * n + j]]]
ReshapeC(X) ==
    [k \in 1..(Rows(X) * Cols(X)) |->
        X[((k - 1) \div Cols(X)) + 1][((k - 1) % Cols(X)) + 1]]

\* vec_trick_mul_full(K1, K2, v); reshape raises when the size of v is not
\* d4 * d2
vec_trick_mul_full(K1, K2, v) ==
    Let2(Cols(K1), Cols(K2), LAMBDA d2, d4 :
        IF Len(v) # d4 * d2
        THEN Raise("TypeError", "cannot reshape array")
        ELSE Let(ReshapeVecF(v, d4, d2), LAMBDA V :
                Return(ReshapeF(MatMul(MatMul(K2, V), Transpose(K1))))))

\* vec_trick_mul_right with the reshapes in row-major order
vec_trick_mul_right_orderC(K2, v) ==
    Let2(Cols(K2), Len(v) \div Cols(K2), LAMBDA d4, n :
        IF n = 0 \/ d4 * n # Len(v)
        THEN Raise("TypeError", "cannot reshape array")
        ELSE Let(ReshapeVecC(v, d4, n), LAMBDA V :
                Return(ReshapeC(MatMul(K2, V)))))
\* vec_trick_mul_right(K2, v); reshape raises when the size of v is not a
\* multiple of d4
vec_trick_mul_right(K2, v) ==
    Let2(Cols(K2), Len(v) \div Cols(K2), LAMBDA d4, n :
        IF n = 0 \/ d4 * n # Len(v)
        THEN Raise("TypeError", "cannot reshape array")
        ELSE Let(ReshapeVecF(v, d4, n), LAMBDA V :
                Return(ReshapeF(MatMul(K2, V)))))

\* the matrices and vectors the two functions are called with
KronEntries == {One, Rat(-2, 1)}
KronMatrices == UNION {Matrices(m, n, KronEntries) : m \in MatSizes, n \in MatSizes}
VecEntries == {One, Rat(3, 1)}
VecTrickVectors(n) == UNION {[1..k -> VecEntries] : k \in 1..n}

CallVecTrickMulRight ==
    /\ call = NoCall
    /\ \E K2 \in KronMatrices, v \in VecTrickVectors(2 * MaxDim) :
            call' = [op |-> "vec_trick_mul_right", K2 |-> K2, v |-> v,
                     out |-> vec_trick_mul_right(K2, v)]
    /\ UNCHANGED solveVars

CallVecTrickMulFull ==
    /\ call = NoCall
    /\ \E K1 \in KronMatrices, K2 \in KronMatrices, v \in VecTrickVectors(4) :
            call' = [op |-> "vec_trick_mul_full", K1 |-> K1, K2 |-> K2, v |-> v,
                     out |-> vec_trick_mul_full(K1, K2, v)]
    /\ UNCHANGED solveVars

NextVecTrick ==
    \/ CallVecTrickMulRight
    \/ CallVecTrickMulFull

SpecVecTrick == InitCalls /\ [][NextVecTrick]_vars

\* jnp.kron(A, B)
Kron(A, B) ==
    [i \in 1..(Rows(A) * Rows(B)) |-> [j \in 1..(Cols(A) * Cols(B)) |->
        Mul(A[((i - 1) \div Rows(B)) + 1][((j - 1) \div Cols(B)) + 1],
            B[((i - 1) % Rows(B)) + 1][((j - 1) % Cols(B)) + 1])]]

\* C21: for every matrix K2 (and K1) and vector v of compatible length,
\* vec_trick_mul_right(K2, v) equals kron(I_d, K2) @ v, with d the length of
\* v divided by the number of columns of K2, and vec_trick_mul_full(K1, K2, v)
\* equals kron(K1, K2) @ v.
C21_VecTrickIsKronecker ==
    /\ (call.op = "vec_trick_mul_right" /\ Len(call.v) % Cols(call.K2) = 0) =>
          /\ ~call.out.raised
          /\ call.out.value
               = MatVec(Kron(Eye(Len(call.v) \div Cols(call.K2)), call.K2), call.v)
    /\ (call.op = "vec_trick_mul_full"
           /\ Len(call.v) = Cols(call.K1) * Cols(call.K2)) =>
          /\ ~call.out.raised
          /\ call.out.value = MatVec(Kron(call.K1, call.K2), call.v)

\* vec_trick_mul_right has returned for a 2 x 2 matrix that is not symmetric
\* and a vector of two blocks that differ
C21_Witness ==
    /\ call.op = "vec_trick_mul_right"
    /\ MatShape(call.K2) = <<2, 2>>
    /\ call.K2 # Transpose(call.K2)
    /\ Len(call.v) = 4
    /\ SubSeq(call.v, 1, 2) # SubSeq(call.v, 3, 4)
    /\ ~call.out.raised
    /\ Len(call.out.value) = 4

\* vec_trick_mul_full has returned for a 1 x 2 matrix K1 and a 2 x 2 matrix K2
C21_WitnessFull ==
    /\ call.op = "vec_trick_mul_full"
    /\ MatShape(call.K1) = <<1, 2>>
    /\ MatShape(call.K2) = <<2, 2>>
    /\ call.K2 # Transpose(call.K2)
    /\ ~call.out.raised
    /\ Len(call.out.value) = 2


====
